---- MODULE Spec2Model ----
(***************************************************************************)
(* Event-to-job matching and dispatch of packit/avant:                     *)
(*   - SteveJobs (packit_service/worker/jobs.py): matcher, checker gate,   *)
(*     task dispatcher, Fedora CI pipeline;                                *)
(*   - MiniJobs (packit_service/worker/minijobs.py);                       *)
(*   - avant Jobs (avant/jobs.py);                                         *)
(*   - the Copr build start/end handlers (worker/handlers/copr.py) over    *)
(*     the persisted build records.                                        *)
(***************************************************************************)
EXTENDS Integers, Sequences, FiniteSets, TLC

VARIABLES
    pipeline,      \* which dispatcher processes the event: "steve", "mini", "avant"
    event,         \* the Event being processed (self.event)
    jobs,          \* self.event.packages_config.get_job_views(), in configuration order
    hasConfig,     \* whether the repository carries a package config
    prLabels,      \* labels currently on the pull request (read from the forge)
    labelChanges,  \* how often the labels were changed on the forge meanwhile
    pc,            \* position of the dispatcher
    handlerQueue,  \* handler classes still to be iterated (a Python set)
    curHandler,    \* handler_kls of the running create_tasks
    jobQueue,      \* job configs still to be iterated by create_tasks
    signatures,    \* the local list "signatures" of the running dispatch function
    taskResults,   \* the local list of results of the running dispatch function
    procResults,   \* processing_results of process_jobs / process_fedora_ci_jobs
    returned,      \* what the caller got: [kind |-> "none" | "list" | "raised", list |-> ...]
    prechecked,    \* log of the pre_check calls: [handler, job, verdict], in order
    built,         \* every signature built so far, in order
    submissions,   \* the groups the execution backend accepted, in order
    applyCalls,    \* number of apply_async calls made
    lostSubs,      \* signatures handed to a submission the backend rejected
    matchLog,      \* inputs and output of every get_jobs_matching_event call
    lastMatch,     \* the list returned by the latest get_jobs_matching_event call
    ranJobs,       \* whether process_jobs ran for this event
    ciDispatched,  \* whether process_fedora_ci_jobs submitted a signature
    coprJob,       \* the job config and project a Copr build belongs to
    builds,        \* persisted build records of one Copr build id, by chroot
    delivered,     \* number of Copr notifications delivered so far
    reports,       \* status reports made by the Copr handlers, in order
    tfTasks,       \* testing-farm tasks dispatched by CoprBuildEndHandler
    runs,          \* one record per handler run: what it saw and what it did
    checkedHandler,  \* cls of the running handler pre_check
    checkerVerdicts, \* what each checker's pre_check() returns if it is called
    checkerQueue,    \* checker classes the loop of pre_check has still to visit
    checks_pass,     \* the local checks_pass of the running pre_check
    instantiated,    \* checker classes instantiated so far, in order
    evaluated,       \* checkers whose pre_check() was called so far, in order
    checkResult,     \* <<b>> once the handler pre_check returned b, <<>> before
    parsed,          \* what the parser selected by process_message did with the message
    forge,           \* whether the forge may fail the "accepted" status report
    reportFailed,    \* the failed "accepted" reports: [handler, job, outcome]
    actor,           \* event.actor: who triggered the event
    contributors,    \* project.get_contributors() of the event's project
    tasks,           \* the retriable tasks on the execution backend, by task number
    tables,          \* the registry tables: each maps its keys to handler sets
    lookups,         \* the registry queries made so far: [fn, key, result, raised]
    db_project_object, \* event.db_project_object: the stored project-event object
    metrics,         \* the counters of the pushgateway
    event_pre_check, \* what event_object.pre_check() returned in process_message
    cancel_running_jobs, \* os.getenv("CANCEL_RUNNING_JOBS") of the deployment
    coprBuilds,      \* the builds of the Copr project: [id, target, state]
    buildOps,        \* the calls a build handler's run() made on its helper, in order
    workers          \* the workers running CoprBuildEndHandler.run, by worker name

dispatchVars == <<pipeline, event, jobs, hasConfig, prLabels, labelChanges, pc,
                  handlerQueue, curHandler, jobQueue, signatures, taskResults,
                  procResults, returned, prechecked, built, submissions,
                  applyCalls, lostSubs, matchLog, lastMatch, ranJobs, ciDispatched>>
coprVars == <<coprJob, builds, delivered, reports, tfTasks, runs>>
checkVars == <<checkedHandler, checkerVerdicts, checkerQueue, checks_pass,
               instantiated, evaluated, checkResult>>
reportVars == <<forge, reportFailed>>
ciVars == <<actor, contributors>>
retryVars == <<tasks>>
registryVars == <<tables, lookups>>
avantVars == <<db_project_object>>
metricsVars == <<metrics, event_pre_check>>
buildRunVars == <<cancel_running_jobs, coprBuilds, buildOps>>
workerVars == <<workers>>
lateVars == <<buildRunVars, workerVars>>
extVars == <<registryVars, avantVars, metricsVars, lateVars>>
auxVars == <<reportVars, ciVars, retryVars, extVars>>
vars == <<dispatchVars, coprVars, checkVars, parsed, auxVars>>

-----------------------------------------------------------------------------
(* Bounds of the model *)

\* longest configured job list
MaxJobs == 2
\* how often the PR's labels change while one event is processed
MaxLabelChanges == 1
\* how many Copr notifications are delivered
MaxDeliveries == 3
MaxTasks == 2
\* how many registry queries are made in a row
MaxLookups == 2
\* longest comment, in lines, and longest line, in tokens before its argument
MaxLines == 2
MaxTokens == 2
\* how many tests jobs the package config of a Copr build holds
MaxTestJobs == 2
\* how many builds the Copr project holds when a build handler runs
MaxBuilds == 3

-----------------------------------------------------------------------------
(* Small helpers over sequences *)

Range(s) == {s[i] : i \in 1..Len(s)}

SeqsUpTo(S, n) == UNION {[1..k -> S] : k \in 0..n}

None == "None"

-----------------------------------------------------------------------------
(* Job definitions (packit.config.JobConfig views) *)

Job(type, trigger, identifier, manual, present, absent, sidetag) ==
    [type |-> type, trigger |-> trigger, identifier |-> identifier,
     manual_trigger |-> manual, present |-> present, absent |-> absent,
     sidetag_group |-> sidetag, package |-> "pkg-a"]

\* the job definitions a repository configuration is drawn from
JobPool ==
    { Job("copr_build", "pull_request", None, FALSE, {}, {}, None),
      Job("copr_build", "pull_request", None, TRUE, {}, {}, None),
      Job("tests", "pull_request", "id1", FALSE, {}, {"wip"}, None),
      Job("tests", "pull_request", None, FALSE, {"ready"}, {}, None),
      Job("bodhi_update", "commit", None, FALSE, {}, {}, None),
      Job("koji_build", "commit", None, FALSE, {}, {}, None),
      Job("koji_build", "koji_build", None, FALSE, {}, {}, "grp"),
      Job("pull_from_upstream", "release", None, FALSE, {}, {}, None) }

\* packages of the configuration: name -> downstream_package_name
Packages == << [name |-> "pkg-a", downstream |-> "pkg"],
               [name |-> "pkg-b", downstream |-> "pkg"] >>

Labels == {"wip", "ready"}

-----------------------------------------------------------------------------
(* Events (packit_service.events) *)

\* ServiceConfig.comment_command_prefix of the deployment
comment_command_prefix == "/packit"

CommentEventKinds == {"github.pr.Comment", "github.issue.Comment",
                      "pagure.pr.Comment", "forgejo.pr.Comment"}

EventKinds == CommentEventKinds \cup
              {"github.pr.Action", "github.push.Commit", "github.check.Rerun",
               "pagure.pr.Action", "koji.tag.Build", "copr.End",
               "forgejo.pr.Action", "testing_farm.Result"}

\* isinstance(event, abstract.comment.CommentEvent)
IsCommentEvent(ev) == ev.kind \in CommentEventKinds
\* isinstance(event, abstract.comment.Issue)
IsIssueComment(ev) == ev.kind = "github.issue.Comment"
\* isinstance(event, abstract.comment.PullRequest)
IsPullRequestComment(ev) == ev.kind \in {"github.pr.Comment", "pagure.pr.Comment",
                                         "forgejo.pr.Comment"}
\* isinstance(event, abstract.base.Result)
IsResult(ev) == ev.kind \in {"copr.End", "testing_farm.Result"}
\* isinstance(event, github.check.Rerun)
IsRerun(ev) == ev.kind = "github.check.Rerun"
\* isinstance(event, abstract.base.ForgeIndependent): every event of the service
IsForgeIndependent(ev) == ev.kind \in EventKinds
\* isinstance(event, forgejo.pr.Comment) or isinstance(event, forgejo.pr.Action)
IsForgejo(ev) == ev.kind \in {"forgejo.pr.Comment", "forgejo.pr.Action"}

\* event.job_config_trigger_type of the event classes with a fixed trigger
TriggerOfKind(k) ==
    CASE k = "github.push.Commit" -> "commit"
      [] k = "github.issue.Comment" -> "release"
      [] k = "koji.tag.Build" -> "koji_build"
      [] OTHER -> "pull_request"

\* comment bodies: a sequence of lines, each line its whitespace-separated tokens
Comments ==
    { <<>>,
      << <<"thanks", "a", "lot">> >>,
      << <<"/packit", "build">> >>,
      << <<>>, <<"/packit">>, <<"/packit", "test">> >>,
      << <<"/packit", "frobnicate">> >>,
      << <<"/packit", "create-update">> >>,
      << <<"/packit", "koji-tag">> >>,
      << <<"/packit-stg", "build">> >>,
      << <<"/packit-ci", "scratch-build">> >> }

Ev(kind, trigger, comment, ident, check, haspr, pkg) ==
    [kind |-> kind, trigger |-> trigger, comment |-> comment,
     job_identifier |-> ident, check_name_job |-> check, has_pr |-> haspr,
     package_name |-> pkg]

\* the events the parser can hand to the dispatcher
Events ==
    {Ev(k, TriggerOfKind(k), c, None, None, k # "github.issue.Comment", None) :
        k \in CommentEventKinds, c \in Comments}
    \cup {Ev(k, TriggerOfKind(k), <<>>, None, None, TRUE, None) :
            k \in {"github.pr.Action", "pagure.pr.Action", "forgejo.pr.Action",
                   "copr.End", "testing_farm.Result"}}
    \cup {Ev("github.push.Commit", "commit", <<>>, None, None, FALSE, None)}
    \cup {Ev("github.check.Rerun", "pull_request", <<>>, i, c, FALSE, None) :
            i \in {None, "id1"}, c \in {"rpm-build", "testing-farm", "nonsense"}}
    \cup {Ev("koji.tag.Build", "koji_build", <<>>, None, None, FALSE, p) :
            p \in {"pkg", "other"}}

-----------------------------------------------------------------------------
(* packit_service.utils *)

\* the line's first token is not compared with the prefix
RECURSIVE FirstCommandAnyMark(_, _)
FirstCommandAnyMark(lines, prefix) ==
    IF lines = <<>> THEN <<>>
    ELSE LET line == Head(lines) IN
         IF line # <<>> /\ Tail(line) # <<>>
         THEN Tail(line)
         ELSE FirstCommandAnyMark(Tail(lines), prefix)

\* a line that is the prefix alone ends the search
RECURSIVE FirstCommandStopsAtBarePrefix(_, _)
FirstCommandStopsAtBarePrefix(lines, prefix) ==
    IF lines = <<>> THEN <<>>
    ELSE LET line == Head(lines) IN
         IF line # <<>> /\ Head(line) = prefix
         THEN Tail(line)
         ELSE FirstCommandStopsAtBarePrefix(Tail(lines), prefix)

RECURSIVE FirstCommand(_, _)
FirstCommand(lines, prefix) ==
    IF lines = <<>> THEN <<>>
    ELSE LET line == Head(lines) IN
         IF line # <<>> /\ Head(line) = prefix /\ Tail(line) # <<>>
         THEN Tail(line)
         ELSE FirstCommand(Tail(lines), prefix)

\* the command and its arguments of the first line "<prefix> <command> ..."
get_packit_commands_from_comment(comment, prefix) == FirstCommand(comment, prefix)

\* the labels are looked up although there is no pull request
pr_labels_match_without_pr_guard(has_pr, pr_labels, present, absent) ==
    /\ (present = {} \/ \E l \in present : l \in pr_labels)
    /\ (absent = {} \/ \A l \in absent : l \notin pr_labels)

\* only the labels required to be present are looked at
pr_labels_match_present_only(has_pr, pr_labels, present, absent) ==
    IF ~has_pr THEN TRUE
    ELSE present = {} \/ \E l \in present : l \in pr_labels

pr_labels_match_configuration(has_pr, pr_labels, present, absent) ==
    IF ~has_pr THEN TRUE
    ELSE /\ (present = {} \/ \E l \in present : l \in pr_labels)
         /\ (absent = {} \/ \A l \in absent : l \notin pr_labels)

-----------------------------------------------------------------------------
(* Handler registry (the tables filled by the registration decorators) *)

\* a plain dict: table[key] raises KeyError for a missing key
SubscriptRaisesOnMissingKey(table, key) == key \notin DOMAIN table

\* the tables are collections.defaultdict(set): table[key] never raises
SubscriptRaises(table, key) == FALSE

\* defaultdict.__getitem__: the value of table[key]; set() for a missing key
Subscript(table, key) == IF key \in DOMAIN table THEN table[key] ELSE {}

\* defaultdict.__missing__: the table after table[key]; a missing key is inserted
AfterSubscript(table, key) ==
    IF key \in DOMAIN table THEN table ELSE table @@ (key :> {})

RECURSIVE AfterSubscripts(_, _)
AfterSubscripts(table, keys) ==
    IF keys = <<>> THEN table
    ELSE AfterSubscripts(AfterSubscript(table, Head(keys)), Tail(keys))

\* "key in table"
Contains(table, key) == key \in DOMAIN table

Desc(job_types, required_for, events, commands, prefixes) ==
    [job_types |-> job_types, required_for |-> required_for, events |-> events,
     commands |-> commands, prefixes |-> prefixes]

\* @configured_as / @run_for_comment / @run_for_check_rerun / @reacts_to of CoprBuildHandler
CoprBuildHandlerDesc ==
    Desc({"copr_build"}, {"tests"},
         {"github.pr.Action", "github.push.Commit", "forgejo.pr.Comment",
          "forgejo.pr.Action", "github.check.Rerun", "github.pr.Comment"},
         {"build", "copr-build", "rebuild-failed"}, {"rpm-build"})

\* @configured_as / @reacts_to of CoprBuildEndHandler
CoprBuildEndHandlerDesc == Desc({"copr_build"}, {}, {"copr.End"}, {}, {})

Handlers == {"CoprBuildHandler", "CoprBuildEndHandler", "TestingFarmHandler",
             "RetriggerBodhiUpdateHandler", "RetriggerDownstreamKojiBuildHandler",
             "TagIntoSidetagHandler", "PullFromUpstreamHandler"}

HandlerDescriptor(h) ==
    CASE h = "CoprBuildHandler" -> CoprBuildHandlerDesc
      [] h = "CoprBuildEndHandler" -> CoprBuildEndHandlerDesc
      [] h = "TestingFarmHandler" ->
            Desc({"tests"}, {},
                 {"github.pr.Action", "github.pr.Comment", "github.push.Commit",
                  "github.check.Rerun"},
                 {"test", "retest-failed"}, {"testing-farm"})
      [] h = "RetriggerBodhiUpdateHandler" ->
            Desc({"bodhi_update"}, {}, {"pagure.pr.Comment", "github.issue.Comment"},
                 {"create-update"}, {})
      [] h = "RetriggerDownstreamKojiBuildHandler" ->
            Desc({"koji_build"}, {}, {"pagure.pr.Comment", "github.issue.Comment"},
                 {"koji-build"}, {})
      [] h = "TagIntoSidetagHandler" ->
            Desc({"koji_build"}, {}, {"pagure.pr.Comment"}, {"koji-tag"}, {})
      [] h = "PullFromUpstreamHandler" ->
            Desc({"pull_from_upstream"}, {}, {"pagure.pr.Comment"},
                 {"pull-from-upstream"}, {})

MAP_JOB_TYPE_TO_HANDLER(t) == {h \in Handlers : t \in HandlerDescriptor(h).job_types}
MAP_REQUIRED_JOB_TYPE_TO_HANDLER(t) ==
    {h \in Handlers : t \in HandlerDescriptor(h).required_for}
MAP_COMMENT_TO_HANDLER(c) == {h \in Handlers : c \in HandlerDescriptor(h).commands}
MAP_CHECK_PREFIX_TO_HANDLER(p) == {h \in Handlers : p \in HandlerDescriptor(h).prefixes}
SUPPORTED_EVENTS_FOR_HANDLER(h) == HandlerDescriptor(h).events

\* Fedora CI handlers: @reacts_to_as_fedora_ci / @run_for_comment_as_fedora_ci
FedoraCIHandlers == {"AvantPRBuildHandler", "SubmitPackageHandler",
                     "DownstreamKojiScratchBuildHandler",
                     "DownstreamKojiELNScratchBuildHandler"}

SUPPORTED_EVENTS_FOR_HANDLER_FEDORA_CI(h) ==
    CASE h = "AvantPRBuildHandler" -> {"forgejo.pr.Action", "forgejo.pr.Comment"}
      [] h = "SubmitPackageHandler" -> {"forgejo.pr.Comment"}
      [] OTHER -> {"pagure.pr.Action", "pagure.pr.Comment"}

MAP_COMMENT_TO_HANDLER_FEDORA_CI(c) ==
    CASE c = "sync-package" -> {"SubmitPackageHandler"}
      [] c = "scratch-build" -> {"DownstreamKojiScratchBuildHandler",
                                 "DownstreamKojiELNScratchBuildHandler"}
      [] OTHER -> {}

\* avant/handlers/abstract.py: reacts_to(event) does
\* SUPPORTED_EVENTS_FOR_HANDLER[event].add(event); COPRBuildHandler is the one
\* class registered, for forgejo.pr.Action. Keys and members are event types.
\* reacts_to(event)(kls): SUPPORTED_EVENTS_FOR_HANDLER[event].add(event); kls is
\* returned unchanged and is not stored
reacts_to(table, ev_type, kls) ==
    [k \in DOMAIN table \cup {ev_type} |->
        Subscript(table, k) \cup (IF k = ev_type THEN {ev_type} ELSE {})]

\* the classes decorated with reacts_to of avant/handlers
AvantRegistrations == <<[event |-> "forgejo.pr.Action", kls |-> "COPRBuildHandler"]>>

RECURSIVE AvantRegister(_, _)
AvantRegister(table, registrations) ==
    IF registrations = <<>> THEN table
    ELSE AvantRegister(reacts_to(table, Head(registrations).event,
                                 Head(registrations).kls),
                       Tail(registrations))

AVANT_SUPPORTED_EVENTS_FOR_HANDLER == AvantRegister(<<>>, AvantRegistrations)

\* the keys the registration decorators fill in
RegisteredCommands == UNION {HandlerDescriptor(h).commands : h \in Handlers}
RegisteredPrefixes == UNION {HandlerDescriptor(h).prefixes : h \in Handlers}
RegisteredJobTypes == UNION {HandlerDescriptor(h).job_types : h \in Handlers}
RequiredJobTypes == UNION {HandlerDescriptor(h).required_for : h \in Handlers}

\* the tables as they stand when every decorator has run
RegisteredTables ==
    [comment |-> [c \in RegisteredCommands |-> MAP_COMMENT_TO_HANDLER(c)],
     check |-> [p \in RegisteredPrefixes |-> MAP_CHECK_PREFIX_TO_HANDLER(p)],
     job |-> [t \in RegisteredJobTypes |-> MAP_JOB_TYPE_TO_HANDLER(t)],
     required |-> [t \in RequiredJobTypes |-> MAP_REQUIRED_JOB_TYPE_TO_HANDLER(t)],
     events |-> [h \in Handlers |-> SUPPORTED_EVENTS_FOR_HANDLER(h)]]

-----------------------------------------------------------------------------
(* SteveJobs: handlers named by a comment or a check rerun *)

get_handlers_for_comment(comment, prefix) ==
    LET commands == get_packit_commands_from_comment(comment, prefix) IN
    IF commands = <<>> THEN {} ELSE MAP_COMMENT_TO_HANDLER(commands[1])

\* comment_command_prefixes for Fedora CI are /packit-ci and /packit-ci-stg
fedora_ci_prefix(prefix) ==
    IF prefix = "/packit-stg" THEN "/packit-ci-stg" ELSE "/packit-ci"

get_handlers_for_comment_fedora_ci(comment, prefix) ==
    LET commands == get_packit_commands_from_comment(comment, fedora_ci_prefix(prefix)) IN
    IF commands = <<>> THEN {} ELSE MAP_COMMENT_TO_HANDLER_FEDORA_CI(commands[1])

get_handlers_for_check_rerun(check_name_job) ==
    MAP_CHECK_PREFIX_TO_HANDLER(check_name_job)

-----------------------------------------------------------------------------
(* SteveJobs: the job matcher *)

\* every event counts as a manual one
IsManualOrResultEventAlways(ev) == TRUE

\* MANUAL_OR_RESULT_EVENTS = [CommentEvent, Result, github.check.Rerun]
IsManualOrResultEvent(ev) == IsCommentEvent(ev) \/ IsResult(ev) \/ IsRerun(ev)

\* a.__dict__ == b.__dict__ with "trigger" popped from both
compare_jobs_without_triggers(a, b) ==
    [a EXCEPT !.trigger = None] = [b EXCEPT !.trigger = None]

event_is_koji_tag_command(ev) ==
    LET commands == get_packit_commands_from_comment(ev.comment, comment_command_prefix) IN
    IF commands = <<>> THEN FALSE ELSE commands[1] = "koji-tag"

\* "job not in jobs_matching_trigger"
NotYetMatched(job, acc) == job \notin Range(acc)

\* the identifier of a check rerun is not compared
BaseConditionAnyIdentifier(ev, job, labels, acc) ==
    /\ job.trigger = ev.trigger
    /\ NotYetMatched(job, acc)
    /\ (~job.manual_trigger \/ IsManualOrResultEvent(ev))
    /\ \/ job.trigger # "pull_request"
       \/ ~(job.present # {} \/ job.absent # {})
       \/ ~IsForgeIndependent(ev)
       \/ pr_labels_match_configuration(ev.has_pr, labels, job.present, job.absent)

\* the condition of the base loop of get_jobs_matching_event for one job
BaseCondition(ev, job, labels, acc) ==
    /\ job.trigger = ev.trigger
    /\ (~IsRerun(ev) \/ ev.job_identifier = job.identifier)
    /\ NotYetMatched(job, acc)
    /\ (~job.manual_trigger \/ IsManualOrResultEvent(ev))
    /\ \/ job.trigger # "pull_request"
       \/ ~(job.present # {} \/ job.absent # {})
       \/ ~IsForgeIndependent(ev)
       \/ pr_labels_match_configuration(ev.has_pr, labels, job.present, job.absent)

RECURSIVE BaseLoop(_, _, _, _)
BaseLoop(ev, js, labels, acc) ==
    IF js = <<>> THEN acc
    ELSE BaseLoop(ev, Tail(js), labels,
                  IF BaseCondition(ev, Head(js), labels, acc)
                  THEN Append(acc, Head(js)) ELSE acc)

\* one iteration of the loop over the job views for a pagure.pr.Comment event
PagureCommentStep(ev, job, acc) ==
    IF /\ job.type \in {"koji_build", "bodhi_update"}
       /\ job.trigger \in {"commit", "koji_build"}
       /\ ev.trigger = "pull_request"
    THEN IF /\ job.type = "koji_build"
            /\ \/ \E j \in Range(acc) : compare_jobs_without_triggers(job, j)
               \/ (event_is_koji_tag_command(ev) /\ job.sidetag_group = None)
         THEN acc
         ELSE Append(acc, job)
    ELSE IF /\ job.type = "pull_from_upstream"
            /\ job.trigger = "release"
            /\ ev.trigger = "pull_request"
         THEN Append(acc, job)
         ELSE acc

\* one iteration of the loop over the job views for an issue comment event
IssueCommentStep(ev, job, acc) ==
    IF /\ job.type \in {"koji_build", "bodhi_update"}
       /\ job.trigger \in {"commit", "koji_build"}
       /\ ev.trigger = "release"
    THEN IF /\ job.type = "koji_build"
            /\ \E j \in Range(acc) : compare_jobs_without_triggers(job, j)
         THEN acc
         ELSE Append(acc, job)
    ELSE acc

RECURSIVE ExplicitLoop(_, _, _)
ExplicitLoop(ev, js, acc) ==
    IF js = <<>> THEN acc
    ELSE ExplicitLoop(ev, Tail(js),
                      IF ev.kind = "pagure.pr.Comment"
                      THEN PagureCommentStep(ev, Head(js), acc)
                      ELSE IssueCommentStep(ev, Head(js), acc))

\* the virtual job config view created for a koji.tag.Build event
KojiTagJob(package) ==
    [Job("koji_build_tag", "koji_build", None, FALSE, {}, {}, None)
        EXCEPT !.package = package]

\* the loop over the packages goes on after the first match
RECURSIVE KojiTagLoopWithoutBreak(_, _)
KojiTagLoopWithoutBreak(ev, pkgs) ==
    IF pkgs = <<>> THEN <<>>
    ELSE IF Head(pkgs).downstream = ev.package_name
         THEN <<KojiTagJob(Head(pkgs).name)>> \o KojiTagLoopWithoutBreak(ev, Tail(pkgs))
         ELSE KojiTagLoopWithoutBreak(ev, Tail(pkgs))

RECURSIVE KojiTagLoop(_, _)
KojiTagLoop(ev, pkgs) ==
    IF pkgs = <<>> THEN <<>>
    ELSE IF Head(pkgs).downstream = ev.package_name
         THEN <<KojiTagJob(Head(pkgs).name)>>
         ELSE KojiTagLoop(ev, Tail(pkgs))

check_explicit_matching(ev, js) ==
    IF ev.kind = "pagure.pr.Comment" \/ IsIssueComment(ev)
    THEN ExplicitLoop(ev, js, <<>>)
    ELSE IF ev.kind = "koji.tag.Build"
         THEN KojiTagLoop(ev, Packages)
         ELSE <<>>

\* the list survives from one call to the next
KeptMatchList == lastMatch

\* "jobs_matching_trigger = []": every call starts from a fresh list
NewMatchList == <<>>

\* the explicit matches are put in front of the base matches
get_jobs_matching_event_explicit_first(ev, js, labels) ==
    check_explicit_matching(ev, js) \o BaseLoop(ev, js, labels, NewMatchList)

get_jobs_matching_event(ev, js, labels) ==
    BaseLoop(ev, js, labels, NewMatchList) \o check_explicit_matching(ev, js)

\* handlers_triggered_by_job: None, or the set named by the comment / check rerun
get_handlers_for_comment_and_rerun_event(ev) ==
    IF IsRerun(ev)
    THEN [none |-> FALSE, set |-> get_handlers_for_check_rerun(ev.check_name_job)]
    ELSE IF IsCommentEvent(ev)
         THEN [none |-> FALSE,
               set |-> get_handlers_for_comment(ev.comment, comment_command_prefix)]
         ELSE [none |-> TRUE, set |-> {}]

is_handler_matching_the_event(ev, handler, allowed_handlers) ==
    /\ ev.kind \in SUPPORTED_EVENTS_FOR_HANDLER(handler)
    /\ (allowed_handlers.none \/ handler \in allowed_handlers.set)

get_handlers_for_event(ev, matching) ==
    LET allowed == get_handlers_for_comment_and_rerun_event(ev) IN
    {h \in Handlers :
        \E i \in 1..Len(matching) :
            /\ h \in MAP_JOB_TYPE_TO_HANDLER(matching[i].type)
                     \cup MAP_REQUIRED_JOB_TYPE_TO_HANDLER(matching[i].type)
            /\ is_handler_matching_the_event(ev, h, allowed)}

RECURSIVE SelectJobs(_, _, _)
SelectJobs(js, handler_kls, required) ==
    IF js = <<>> THEN <<>>
    ELSE LET rest == SelectJobs(Tail(js), handler_kls, required)
             table == IF required THEN MAP_REQUIRED_JOB_TYPE_TO_HANDLER(Head(js).type)
                      ELSE MAP_JOB_TYPE_TO_HANDLER(Head(js).type)
         IN IF handler_kls \in table THEN <<Head(js)>> \o rest ELSE rest

\* a selection that adds the jobs requiring the handler to the direct ones
get_config_for_handler_kls_with_required(handler_kls, matching) ==
    SelectJobs(matching, handler_kls, FALSE) \o SelectJobs(matching, handler_kls, TRUE)

get_config_for_handler_kls(handler_kls, matching) ==
    LET direct == SelectJobs(matching, handler_kls, FALSE) IN
    IF direct # <<>> THEN direct ELSE SelectJobs(matching, handler_kls, TRUE)

-----------------------------------------------------------------------------
(* Records of the dispatchers *)

NoJob == Job(None, None, None, FALSE, {}, {}, None)

\* handler_kls.get_signature(event, job) / celery.signature(task_name, kwargs)
Signature(handler, job) == [handler |-> handler, job |-> job]

PreCheck(handler, job, verdict) == [handler |-> handler, job |-> job, verdict |-> verdict]

TaskResults(success, msg) == [success |-> success, msg |-> msg]

NothingReturned == [kind |-> "none", list |-> <<>>]
Returns(list) == [kind |-> "list", list |-> list]
Raised == [kind |-> "raised", list |-> <<>>]

\* the configuration is_packit_config_present installs for a Forgejo PR event
ForgejoJobs == << Job("copr_build", "pull_request", None, FALSE, {}, {}, None),
                  Job("tests", "pull_request", None, FALSE, {}, {}, None) >>

MatchEntry(labels, js, out) == [labels |-> labels, jobs |-> js, out |-> out]

-----------------------------------------------------------------------------
(* Initial states *)

InitCoprIdle ==
    /\ coprJob = <<>>
    /\ builds = <<>>
    /\ delivered = 0
    /\ reports = <<>>
    /\ tfTasks = <<>>
    /\ runs = <<>>

InitCheckIdle ==
    /\ checkedHandler = None
    /\ checkerVerdicts = <<>>
    /\ checkerQueue = <<>>
    /\ checks_pass = TRUE
    /\ instantiated = <<>>
    /\ evaluated = <<>>
    /\ checkResult = <<>>

\* the parser returned the event object
InitParsed == parsed = "event"

\* the forge accepts every status report
InitReportIdle ==
    /\ forge = "accepts"
    /\ reportFailed = {}

\* the actor is not looked at
InitCIIdle ==
    /\ actor = None
    /\ contributors = {}

\* no task runs on the execution backend
InitRetryIdle == tasks = <<>>

\* the registration is over and no query was made
InitRegistryIdle ==
    /\ tables = RegisteredTables
    /\ lookups = <<>>

\* Pushgateway(): every counter starts at zero
NoMetrics ==
    [events_processed |-> 0, events_not_handled |-> 0, events_pre_check_failed |-> 0]

\* no build handler runs
InitBuildRunIdle ==
    /\ cancel_running_jobs = None
    /\ coprBuilds = {}
    /\ buildOps = <<>>

InitLateIdle == InitBuildRunIdle /\ workers = <<>>

InitExtIdle ==
    /\ InitRegistryIdle
    /\ db_project_object = None
    /\ metrics = NoMetrics
    /\ event_pre_check = "not_called"
    /\ InitLateIdle

InitAuxIdle == InitReportIdle /\ InitCIIdle /\ InitRetryIdle /\ InitExtIdle

InitDispatchCommon ==
    /\ event \in Events
    /\ labelChanges = 0
    /\ pc = "process"
    /\ handlerQueue = {}
    /\ curHandler = None
    /\ jobQueue = <<>>
    /\ signatures = <<>>
    /\ taskResults = <<>>
    /\ procResults = <<>>
    /\ returned = NothingReturned
    /\ prechecked = <<>>
    /\ built = <<>>
    /\ submissions = <<>>
    /\ applyCalls = 0
    /\ lostSubs = {}
    /\ matchLog = <<>>
    /\ lastMatch = <<>>
    /\ ranJobs = FALSE
    /\ ciDispatched = FALSE

InitSteve ==
    /\ pipeline = "steve"
    /\ InitDispatchCommon
    /\ hasConfig \in BOOLEAN
    /\ jobs \in (IF hasConfig THEN SeqsUpTo(JobPool, MaxJobs) ELSE {<<>>})
    /\ prLabels \in (IF event.has_pr THEN SUBSET Labels ELSE {{}})

InitOther ==
    /\ pipeline \in {"mini", "avant"}
    /\ InitDispatchCommon
    /\ hasConfig = FALSE
    /\ jobs = <<>>
    /\ prLabels = {}

Init == (InitSteve \/ InitOther) /\ InitCoprIdle /\ InitCheckIdle /\ InitParsed /\ InitAuxIdle

-----------------------------------------------------------------------------
(* SteveJobs.process and process_fedora_ci_jobs *)

inputVars == <<pipeline, event, hasConfig, labelChanges>>

\* events for which process() tries the Fedora CI pipeline first
FedoraCIEligible(ev) ==
    ev.kind \in {"pagure.pr.Action", "pagure.pr.Comment", "testing_farm.Result"}

\* matching_handlers of process_fedora_ci_jobs
FedoraCIMatchingHandlers(ev) ==
    {h \in FedoraCIHandlers :
        /\ ev.kind \in SUPPORTED_EVENTS_FOR_HANDLER_FEDORA_CI(h)
        /\ \/ ~IsCommentEvent(ev)
           \/ h \in get_handlers_for_comment_fedora_ci(ev.comment, comment_command_prefix)}

\* process(): the Fedora CI pipeline runs first for the eligible events; with no
\* matching Fedora CI handler it returns [] and process_jobs takes over
Process ==
    /\ pipeline = "steve"
    /\ pc = "process"
    /\ LET ci == IF FedoraCIEligible(event) THEN FedoraCIMatchingHandlers(event) ELSE {}
       IN /\ handlerQueue' = ci
          /\ pc' = IF ci # {} THEN "ci_loop" ELSE "process_jobs"
    /\ UNCHANGED <<inputVars, jobs, prLabels, curHandler, jobQueue, signatures,
                   taskResults, procResults, returned, prechecked, built,
                   submissions, applyCalls, lostSubs, matchLog, lastMatch,
                   ranJobs, ciDispatched>>
    /\ UNCHANGED <<coprVars, checkVars, parsed, auxVars>>

\* handler_kls.pre_check(...): the verdict of the handler's checkers
PreCheckVerdicts == BOOLEAN

\* a signature is built whatever pre_check said
ShouldCreateAlways(verdict) == TRUE

\* whether a signature is built for a pair whose pre_check gave this verdict
ShouldCreate(verdict) == verdict

\* IsUserMaintainer.pre_check whoever the actor is
IsUserMaintainerAnyActor(ev, who, maintainers) == ev.kind = "forgejo.pr.Comment"

\* IsUserMaintainer.pre_check: a Forgejo PR comment of one of the contributors
IsUserMaintainer(ev, who, maintainers) ==
    /\ ev.kind = "forgejo.pr.Comment"
    /\ who \in maintainers

\* what handler_kls.pre_check can return in process_fedora_ci_jobs:
\* SubmitPackageHandler has the one checker IsUserMaintainer
FedoraCIPreCheckVerdicts(h) ==
    IF h = "SubmitPackageHandler"
    THEN {IsUserMaintainer(event, actor, contributors)}
    ELSE PreCheckVerdicts

\* one iteration of the loop of process_fedora_ci_jobs
FedoraCIStep ==
    /\ pc = "ci_loop"
    /\ handlerQueue # {}
    /\ \E h \in handlerQueue, accepted \in BOOLEAN :
       \E verdict \in FedoraCIPreCheckVerdicts(h) :
        LET sig == Signature(h, NoJob) IN
        /\ prechecked' = Append(prechecked, PreCheck(h, NoJob, verdict))
        /\ IF ~ShouldCreate(verdict)
           THEN /\ handlerQueue' = handlerQueue \ {h}
                /\ UNCHANGED <<built, applyCalls, submissions, procResults, lostSubs,
                               pc, returned, ciDispatched>>
           ELSE /\ built' = Append(built, sig)
                /\ applyCalls' = applyCalls + 1
                /\ IF accepted
                   THEN /\ submissions' = Append(submissions, <<sig>>)
                        /\ procResults' = Append(procResults, TaskResults(TRUE, "Job created."))
                        /\ handlerQueue' = handlerQueue \ {h}
                        /\ ciDispatched' = TRUE
                        /\ UNCHANGED <<lostSubs, pc, returned>>
                   ELSE /\ lostSubs' = lostSubs \cup {sig}
                        /\ pc' = "raised"
                        /\ returned' = Raised
                        /\ UNCHANGED <<submissions, procResults, handlerQueue, ciDispatched>>
    /\ UNCHANGED <<inputVars, jobs, prLabels, curHandler, jobQueue, signatures,
                   taskResults, matchLog, lastMatch, ranJobs>>
    /\ UNCHANGED <<coprVars, checkVars, parsed, auxVars>>

\* process_jobs runs whatever the Fedora CI pipeline returned
RunsProcessJobsAlways(processing_results) == TRUE

\* "if not processing_results" of process()
RunsProcessJobs(processing_results) == processing_results = <<>>

\* process_fedora_ci_jobs returns; an empty list makes process() run process_jobs
FedoraCIReturn ==
    /\ pc = "ci_loop"
    /\ handlerQueue = {}
    /\ IF ~RunsProcessJobs(procResults)
       THEN /\ returned' = Returns(procResults)
            /\ pc' = "done"
       ELSE /\ pc' = "process_jobs"
            /\ UNCHANGED returned
    /\ UNCHANGED <<inputVars, jobs, prLabels, handlerQueue, curHandler, jobQueue,
                   signatures, taskResults, procResults, prechecked, built,
                   submissions, applyCalls, lostSubs, matchLog, lastMatch,
                   ranJobs, ciDispatched>>
    /\ UNCHANGED <<coprVars, checkVars, parsed, auxVars>>

-----------------------------------------------------------------------------
(* SteveJobs.process_jobs and create_tasks *)

\* the job views after is_packit_config_present; the Forgejo events of Events
\* are those whose body names a package (ForgejoConfig has the other bodies)
ConfigJobs == IF IsForgejo(event) THEN ForgejoJobs ELSE jobs

is_packit_config_present == IsForgejo(event) \/ hasConfig

\* an informational result instead of the empty list
NoHandlerResultInformational == <<TaskResults(TRUE, "No handler found.")>>

\* what process_jobs returns when get_handlers_for_event finds no handler
NoHandlerResult == <<>>

\* process_jobs up to the loop over handler_classes
ProcessJobs ==
    /\ pc = "process_jobs"
    /\ ranJobs' = TRUE
    /\ IF IsCommentEvent(event)
          /\ get_handlers_for_comment(event.comment, comment_command_prefix) = {}
       THEN /\ returned' = Returns(<<TaskResults(TRUE, "No Packit command found in the comment.")>>)
            /\ pc' = "done"
            /\ UNCHANGED <<jobs, handlerQueue, matchLog, lastMatch>>
       ELSE IF ~is_packit_config_present
       THEN /\ returned' = Returns(<<TaskResults(TRUE, "No packit config found in the repository.")>>)
            /\ pc' = "done"
            /\ UNCHANGED <<jobs, handlerQueue, matchLog, lastMatch>>
       ELSE LET matching == get_jobs_matching_event(event, ConfigJobs, prLabels)
                handler_classes == get_handlers_for_event(event, matching)
            IN /\ jobs' = ConfigJobs
               /\ matchLog' = Append(matchLog, MatchEntry(prLabels, ConfigJobs, matching))
               /\ lastMatch' = matching
               /\ handlerQueue' = handler_classes
               /\ IF handler_classes = {}
                  THEN /\ returned' = Returns(NoHandlerResult)
                       /\ pc' = "done"
                  ELSE /\ pc' = "handlers"
                       /\ UNCHANGED returned
    /\ UNCHANGED <<inputVars, prLabels, curHandler, jobQueue, signatures, taskResults,
                   procResults, prechecked, built, submissions, applyCalls, lostSubs,
                   ciDispatched>>
    /\ UNCHANGED <<coprVars, checkVars, parsed, auxVars>>

\* the loop of process_jobs picks the next handler class of the set and
\* create_tasks starts with its job configs
NextHandler ==
    /\ pc = "handlers"
    /\ handlerQueue # {}
    /\ \E h \in handlerQueue :
        LET matching == get_jobs_matching_event(event, jobs, prLabels) IN
        /\ handlerQueue' = handlerQueue \ {h}
        /\ curHandler' = h
        /\ matchLog' = Append(matchLog, MatchEntry(prLabels, jobs, matching))
        /\ lastMatch' = matching
        /\ jobQueue' = get_config_for_handler_kls(h, matching)
    /\ signatures' = <<>>
    /\ taskResults' = <<>>
    /\ pc' = "create_tasks"
    /\ UNCHANGED <<inputVars, jobs, prLabels, procResults, returned, prechecked, built,
                   submissions, applyCalls, lostSubs, ranJobs, ciDispatched>>
    /\ UNCHANGED <<coprVars, checkVars, parsed, auxVars>>

\* the handler classes report_task_accepted reports for: a status for the
\* build and test handlers, a comment for the downstream re-trigger handlers
\* of a pull-request or issue comment
ReportsTaskAccepted(handler_kls, ev) ==
    \/ handler_kls \in {"CoprBuildHandler", "TestingFarmHandler"}
    \/ /\ IsCommentEvent(ev)
       /\ IsIssueComment(ev) \/ IsPullRequestComment(ev)
       /\ handler_kls \in {"PullFromUpstreamHandler", "RetriggerBodhiUpdateHandler",
                           "RetriggerDownstreamKojiBuildHandler", "TagIntoSidetagHandler"}

\* what report_task_accepted can do: return after the report ("ok"), return
\* after the forge rejected the status and the reporter logged it and fell
\* back to a commit comment ("rejected"), or raise ("raises")
ReportOutcomes(f, handler_kls, ev) ==
    IF f = "may_fail" /\ ReportsTaskAccepted(handler_kls, ev)
    THEN {"ok", "rejected", "raises"}
    ELSE {"ok"}

ReportFailure(handler, job, outcome) == [handler |-> handler, job |-> job, outcome |-> outcome]

\* whether create_tasks catches an exception of report_task_accepted: the
\* call is not inside any try block
ReportExceptionIsCaught == FALSE

\* one iteration of the loop of create_tasks
CreateTask ==
    /\ pc = "create_tasks"
    /\ jobQueue # <<>>
    /\ \E verdict \in PreCheckVerdicts, outcome \in ReportOutcomes(forge, curHandler, event) :
        LET job == Head(jobQueue)
            sig == Signature(curHandler, job)
        IN /\ prechecked' = Append(prechecked, PreCheck(curHandler, job, verdict))
           /\ IF ~ShouldCreate(verdict)
              THEN /\ outcome = "ok"
                   /\ jobQueue' = Tail(jobQueue)
                   /\ UNCHANGED <<signatures, built, taskResults, reportFailed, pc, returned>>
              ELSE /\ reportFailed' = IF outcome = "ok" THEN reportFailed
                                      ELSE reportFailed \cup {ReportFailure(curHandler, job, outcome)}
                   /\ IF outcome = "raises" /\ ~ReportExceptionIsCaught
                      THEN /\ returned' = Raised
                           /\ pc' = "raised"
                           /\ UNCHANGED <<signatures, built, taskResults, jobQueue>>
                      ELSE /\ signatures' = Append(signatures, sig)
                           /\ built' = Append(built, sig)
                           /\ taskResults' = Append(taskResults, TaskResults(TRUE, "Job created."))
                           /\ jobQueue' = Tail(jobQueue)
                           /\ UNCHANGED <<pc, returned>>
    /\ UNCHANGED <<inputVars, jobs, prLabels, handlerQueue, curHandler, procResults,
                   submissions, applyCalls, lostSubs, matchLog, lastMatch,
                   ranJobs, ciDispatched>>
    /\ UNCHANGED <<coprVars, checkVars, parsed, forge, ciVars, retryVars, extVars>>

\* no apply_async call for an empty list of signatures
SubmitCallsUnlessEmpty(sigs) == IF sigs = <<>> THEN 0 ELSE 1

\* one apply_async call per signature
SubmitCallsPerSignature(sigs) == Len(sigs)

\* how many apply_async calls create_tasks makes for its list of signatures
SubmitCalls(sigs) == 1

\* celery.group(signatures).apply_async() at the end of create_tasks
SubmitGroup ==
    /\ pc = "create_tasks"
    /\ jobQueue = <<>>
    /\ applyCalls' = applyCalls + SubmitCalls(signatures)
    /\ \E accepted \in BOOLEAN :
        IF accepted
        THEN /\ submissions' = Append(submissions, signatures)
             /\ procResults' = procResults \o taskResults
             /\ pc' = "handlers"
             /\ UNCHANGED <<lostSubs, returned>>
        ELSE /\ lostSubs' = lostSubs \cup Range(signatures)
             /\ returned' = Raised
             /\ pc' = "raised"
             /\ UNCHANGED <<submissions, procResults>>
    /\ UNCHANGED <<inputVars, jobs, prLabels, handlerQueue, curHandler, jobQueue,
                   signatures, taskResults, prechecked, built, matchLog, lastMatch,
                   ranJobs, ciDispatched>>
    /\ UNCHANGED <<coprVars, checkVars, parsed, auxVars>>

\* process_jobs returns processing_results
ProcessJobsReturn ==
    /\ pc = "handlers"
    /\ handlerQueue = {}
    /\ returned' = Returns(procResults)
    /\ pc' = "done"
    /\ UNCHANGED <<inputVars, jobs, prLabels, handlerQueue, curHandler, jobQueue,
                   signatures, taskResults, procResults, prechecked, built,
                   submissions, applyCalls, lostSubs, matchLog, lastMatch,
                   ranJobs, ciDispatched>>
    /\ UNCHANGED <<coprVars, checkVars, parsed, auxVars>>

\* somebody changes a label of the pull request while the event is processed
ChangeLabels ==
    /\ pipeline = "steve"
    /\ pc \in {"handlers", "create_tasks"}
    /\ event.has_pr
    /\ labelChanges < MaxLabelChanges
    /\ labelChanges' = labelChanges + 1
    /\ \E l \in Labels :
        prLabels' = IF l \in prLabels THEN prLabels \ {l} ELSE prLabels \cup {l}
    /\ UNCHANGED <<pipeline, event, hasConfig, jobs, pc, handlerQueue, curHandler,
                   jobQueue, signatures, taskResults, procResults, returned,
                   prechecked, built, submissions, applyCalls, lostSubs, matchLog,
                   lastMatch, ranJobs, ciDispatched>>
    /\ UNCHANGED <<coprVars, checkVars, parsed, auxVars>>

-----------------------------------------------------------------------------
(* MiniJobs *)

\* MiniJobs.process up to the loop over the handlers
\* (_process_comment_event / _process_non_comment_event)
MiniProcess ==
    /\ pipeline = "mini"
    /\ pc = "process"
    /\ LET commands == get_packit_commands_from_comment(event.comment, comment_command_prefix)
           handlers == IF IsCommentEvent(event)
                       THEN IF commands = <<>> THEN {}
                            ELSE MAP_COMMENT_TO_HANDLER(commands[1])
                       ELSE {h \in Handlers : event.kind \in SUPPORTED_EVENTS_FOR_HANDLER(h)}
           msg == IF ~IsCommentEvent(event) THEN "No handler found for event"
                  ELSE IF commands = <<>>
                       THEN "No recognized Packit command found in the comment."
                       ELSE "No handler found for command"
       IN /\ handlerQueue' = handlers
          /\ IF handlers = {}
             THEN /\ returned' = Returns(<<TaskResults(TRUE, msg)>>)
                  /\ pc' = "done"
             ELSE /\ pc' = "mini_loop"
                  /\ UNCHANGED returned
    /\ UNCHANGED <<inputVars, jobs, prLabels, curHandler, jobQueue, signatures,
                   taskResults, procResults, prechecked, built, submissions,
                   applyCalls, lostSubs, matchLog, lastMatch, ranJobs, ciDispatched>>
    /\ UNCHANGED <<coprVars, checkVars, parsed, auxVars>>

\* DUMMY_JOB_CONFIG
DummyJob == Job("copr_build", "pull_request", None, FALSE, {}, {}, None)

\* one iteration of the loop over the handlers: _make_signature returns the
\* signature, or None and the error when building it raised
MiniMakeSignature ==
    /\ pc = "mini_loop"
    /\ handlerQueue # {}
    /\ \E h \in handlerQueue, made \in BOOLEAN :
        /\ handlerQueue' = handlerQueue \ {h}
        /\ IF made
           THEN /\ signatures' = Append(signatures, Signature(h, DummyJob))
                /\ built' = Append(built, Signature(h, DummyJob))
                /\ taskResults' = Append(taskResults, TaskResults(TRUE, "Task created for handler"))
           ELSE /\ taskResults' = Append(taskResults,
                                         TaskResults(FALSE, "Failed to create task for handler"))
                /\ UNCHANGED <<signatures, built>>
    /\ UNCHANGED <<inputVars, jobs, prLabels, pc, curHandler, jobQueue, procResults,
                   returned, prechecked, submissions, applyCalls, lostSubs, matchLog,
                   lastMatch, ranJobs, ciDispatched>>
    /\ UNCHANGED <<coprVars, checkVars, parsed, auxVars>>

\* what the caller of _send_to_celery learns of a rejected submission:
\* the except branch only logs
SendFailureVisible == FALSE

\* _send_to_celery(signatures) and the return of the results
MiniSend ==
    /\ pc = "mini_loop"
    /\ handlerQueue = {}
    /\ IF signatures = <<>>
       THEN /\ returned' = Returns(taskResults)
            /\ pc' = "done"
            /\ UNCHANGED <<applyCalls, submissions, lostSubs>>
       ELSE /\ applyCalls' = applyCalls + 1
            /\ \E accepted \in BOOLEAN :
                IF accepted
                THEN /\ submissions' = Append(submissions, signatures)
                     /\ returned' = Returns(taskResults)
                     /\ pc' = "done"
                     /\ UNCHANGED lostSubs
                ELSE /\ lostSubs' = lostSubs \cup Range(signatures)
                     /\ returned' = IF SendFailureVisible THEN Raised
                                    ELSE Returns(taskResults)
                     /\ pc' = IF SendFailureVisible THEN "raised" ELSE "done"
                     /\ UNCHANGED submissions
    /\ UNCHANGED <<inputVars, jobs, prLabels, handlerQueue, curHandler, jobQueue,
                   signatures, taskResults, procResults, prechecked, built,
                   matchLog, lastMatch, ranJobs, ciDispatched>>
    /\ UNCHANGED <<coprVars, checkVars, parsed, auxVars>>

-----------------------------------------------------------------------------
(* avant Jobs *)

\* Jobs.get_handlers_for_event: the keys of the table the event is an instance of
avant_get_handlers_for_event(ev) ==
    {k \in DOMAIN AVANT_SUPPORTED_EVENTS_FOR_HANDLER :
        ev.kind \in AVANT_SUPPORTED_EVENTS_FOR_HANDLER[k]}

\* Jobs.process_jobs up to the loop over handler_classes
AvantProcessJobs ==
    /\ pipeline = "avant"
    /\ pc = "process"
    /\ IF event.kind = "forgejo.pr.Comment"
          /\ get_handlers_for_comment(event.comment, "/packit-ci") = {}
       THEN /\ returned' = Returns(<<TaskResults(TRUE, "No Packit command found in the comment")>>)
            /\ pc' = "done"
            /\ UNCHANGED handlerQueue
       ELSE LET handler_classes == avant_get_handlers_for_event(event) IN
            /\ handlerQueue' = handler_classes
            /\ IF handler_classes = {}
               THEN /\ returned' = Returns(<<>>)
                    /\ pc' = "done"
               ELSE /\ pc' = "avant_loop"
                    /\ UNCHANGED returned
    /\ UNCHANGED <<inputVars, jobs, prLabels, curHandler, jobQueue, signatures,
                   taskResults, procResults, prechecked, built, submissions,
                   applyCalls, lostSubs, matchLog, lastMatch, ranJobs, ciDispatched>>
    /\ UNCHANGED <<coprVars, checkVars, parsed, auxVars>>

\* whether the class has a get_signature: the job handlers have, the event
\* classes have not
HasGetSignature(kls) == kls \in Handlers

\* Jobs.create_tasks(kls) for the next class of the loop, and the return of
\* process_jobs after the last one
AvantCreateTasks ==
    /\ pc = "avant_loop"
    /\ handlerQueue # {}
    /\ \E kls \in handlerQueue, accepted \in BOOLEAN :
        LET sig == Signature(kls, NoJob) IN
        IF HasGetSignature(kls) /\ accepted
        THEN /\ built' = Append(built, sig)
             /\ applyCalls' = applyCalls + 1
             /\ submissions' = Append(submissions, <<sig>>)
             /\ procResults' = Append(procResults, sig)
             /\ handlerQueue' = handlerQueue \ {kls}
             /\ IF handlerQueue' = {}
                THEN returned' = Returns(procResults') /\ pc' = "done"
                ELSE UNCHANGED <<returned, pc>>
             /\ UNCHANGED lostSubs
        ELSE /\ built' = IF HasGetSignature(kls) THEN Append(built, sig) ELSE built
             /\ applyCalls' = IF HasGetSignature(kls) THEN applyCalls + 1 ELSE applyCalls
             /\ lostSubs' = IF HasGetSignature(kls) THEN lostSubs \cup {sig} ELSE lostSubs
             /\ returned' = Raised
             /\ pc' = "raised"
             /\ UNCHANGED <<submissions, procResults, handlerQueue>>
    /\ UNCHANGED <<inputVars, jobs, prLabels, curHandler, jobQueue, signatures,
                   taskResults, prechecked, matchLog, lastMatch, ranJobs, ciDispatched>>
    /\ UNCHANGED <<coprVars, checkVars, parsed, auxVars>>

-----------------------------------------------------------------------------
(* The dispatchers' specification *)

Next ==
    \/ Process
    \/ FedoraCIStep
    \/ FedoraCIReturn
    \/ ProcessJobs
    \/ NextHandler
    \/ CreateTask
    \/ SubmitGroup
    \/ ProcessJobsReturn
    \/ ChangeLabels
    \/ MiniProcess
    \/ MiniMakeSignature
    \/ MiniSend
    \/ AvantProcessJobs
    \/ AvantCreateTasks

Spec == Init /\ [][Next]_vars

-----------------------------------------------------------------------------
(* The Copr build start/end handlers over the persisted build records *)

COPR_SRPM_CHROOT == "srpm-builds"
COPR_API_SUCC_STATE == 1

\* the chroots the Copr build was submitted for
CoprTargets == {"fedora-rawhide-x86_64", "fedora-rawhide-aarch64"}
CoprChroots == {COPR_SRPM_CHROOT} \cup CoprTargets
\* copr_event.status: failed and succeeded
CoprStatuses == (COPR_API_SUCC_STATE - 1)..COPR_API_SUCC_STATE

\* BuildStatus.is_final_state
is_final_state(status) == status \in {"success", "failure", "error", "canceled"}

\* a SRPMBuildModel / CoprBuildTargetModel row as the submission leaves it
BuildRecord(status) ==
    [status |-> status, build_start_time |-> FALSE, build_end_time |-> FALSE,
     logs_url |-> FALSE, url |-> FALSE, built_packages |-> FALSE]

\* the rows of one Copr build id after its submission
SubmittedBuilds(targets) ==
    [c \in {COPR_SRPM_CHROOT} \cup targets |->
        IF c = COPR_SRPM_CHROOT THEN BuildRecord("pending")
        ELSE BuildRecord("waiting_for_srpm")]

\* copr.Start / copr.End as the handlers read them; a start message may come
\* without a timestamp
StartNotification(chroot, timestamp) ==
    [topic |-> "start", chroot |-> chroot, timestamp |-> timestamp]
EndNotification(chroot, status) ==
    [topic |-> "end", chroot |-> chroot, status |-> status, timestamp |-> TRUE]

Report(kind, state, scope, chroot) ==
    [kind |-> kind, state |-> state, scope |-> scope, chroot |-> chroot]

\* what one run leaves behind: the rows, its reports, its testing-farm tasks
\* and the success flag of its TaskResults
Outcome(db, reps, tf, success) ==
    [builds |-> db, reports |-> reps, tfTasks |-> tf, success |-> success]

\* report_status_to_all if sync_test_job_statuses_with_builds else report_status_to_build
ReportScope(job) == IF job.sync THEN "all" ELSE "build"

set_start_time(db, n) == [db EXCEPT ![n.chroot].build_start_time = n.timestamp]

set_end_time(db, n) == [db EXCEPT ![n.chroot].build_end_time = n.timestamp]

\* the URL is written to the SRPM build unless it is already set
set_srpm_url(db) == [db EXCEPT ![COPR_SRPM_CHROOT].url = TRUE]

CoprBuildStartHandler_run(db, job, n) ==
    IF n.chroot \notin DOMAIN db THEN Outcome(db, <<>>, <<>>, FALSE)
    ELSE IF db[n.chroot].build_start_time THEN Outcome(db, <<>>, <<>>, TRUE)
    ELSE IF is_final_state(db[n.chroot].status)
         THEN Outcome(set_start_time(db, n), <<>>, <<>>, TRUE)
    ELSE LET logged == [db EXCEPT ![n.chroot].logs_url = TRUE] IN
         IF n.chroot = COPR_SRPM_CHROOT
         THEN Outcome(set_start_time(logged, n),
                      <<Report("status", "running", ReportScope(job), None)>>, <<>>, TRUE)
         ELSE Outcome(set_start_time([logged EXCEPT ![n.chroot].status = "pending"], n),
                      <<Report("status", "running", ReportScope(job), n.chroot)>>, <<>>, TRUE)

\* BuildNotAlreadyStarted.pre_check: true without a build, else whether the
\* build has no start time yet
BuildNotAlreadyStarted(db, chroot) ==
    IF chroot \notin DOMAIN db THEN TRUE ELSE ~db[chroot].build_start_time

\* notify_about_failure_if_configured
FailureNotification(job, chroot) ==
    IF job.comments THEN <<Report("notification", "failure", "all", chroot)>> ELSE <<>>

report_successful_build(job, n) ==
    (IF job.comments THEN <<Report("comment", "success", "build", n.chroot)>> ELSE <<>>)
    \o <<Report("status", "success", "build", n.chroot)>>
    \o (IF job.sync THEN <<Report("status", "pending", "tests", n.chroot)>> ELSE <<>>)

\* the comment with the review, posted by the avant handler for a pull request
handle_fedora_review(job, n) ==
    IF job.review THEN <<Report("comment", "review", "build", n.chroot)>> ELSE <<>>

\* a tests job of the package config, as handle_testing_farm reads it:
\* identifier, trigger, whether require.label.present or .absent is set, and
\* copr_build_helper.build_targets_for_test_job(job_config)
TestJob(identifier, trigger, labels, build_targets) ==
    [identifier |-> identifier, trigger |-> trigger, labels |-> labels,
     build_targets |-> build_targets]

\* a pull-request test job without label predicates that runs on every target
PlainTestJob == TestJob(None, "pull_request", FALSE, CoprTargets)

\* a dispatch that does not look at the label predicates
TestJobIsDispatchedWhateverLabels(t, n) == n.chroot \in t.build_targets

\* the condition of the loop of handle_testing_farm
TestJobIsDispatched(t, n) ==
    /\ t.trigger # "pull_request" \/ ~t.labels
    /\ n.chroot \in t.build_targets

TestingFarmTask(t, i, n) ==
    [task |-> "testing_farm", chroot |-> n.chroot, identifier |-> t.identifier,
     test_job |-> i]

RECURSIVE TestingFarmLoop(_, _, _)
TestingFarmLoop(ts, i, n) ==
    IF i > Len(ts) THEN <<>>
    ELSE (IF TestJobIsDispatched(ts[i], n) THEN <<TestingFarmTask(ts[i], i, n)>> ELSE <<>>)
         \o TestingFarmLoop(ts, i + 1, n)

\* one signature(testing_farm).apply_async() per test job of job_tests_all
\* that passes the condition, in the order of the config
handle_testing_farm(job, n) == TestingFarmLoop(job.tests, 1, n)

handle_srpm_end(db, job, n) ==
    IF n.status # COPR_API_SUCC_STATE
    THEN Outcome([db EXCEPT ![COPR_SRPM_CHROOT].status = "failure"],
                 <<Report("status", "failure", "all", None)>> \o FailureNotification(job, None),
                 <<>>, FALSE)
    ELSE LET pending == [c \in DOMAIN db |->
                            IF c \in CoprTargets THEN [db[c] EXCEPT !.status = "pending"]
                            ELSE db[c]]
         IN Outcome([pending EXCEPT ![COPR_SRPM_CHROOT].status = "success"],
                    <<Report("status", "running", ReportScope(job), None)>>, <<>>, TRUE)

\* the build is processed however its status reads
AlreadyProcessedNever(status) == FALSE

\* "if self.build.status in [BuildStatus.success, BuildStatus.failure]"
AlreadyProcessed(status) == status \in {"success", "failure"}

CoprBuildEndHandler_run(db, job, n) ==
    IF n.chroot \notin DOMAIN db THEN Outcome(db, <<>>, <<>>, FALSE)
    ELSE IF AlreadyProcessed(db[n.chroot].status) THEN Outcome(db, <<>>, <<>>, TRUE)
    ELSE LET ended == set_srpm_url(set_end_time(db, n)) IN
         IF n.chroot = COPR_SRPM_CHROOT THEN handle_srpm_end(ended, job, n)
         ELSE IF n.status # COPR_API_SUCC_STATE
         THEN Outcome([ended EXCEPT ![n.chroot].status = "failure"],
                      IF ended[COPR_SRPM_CHROOT].status # "failure"
                      THEN <<Report("status", "failure", "all", n.chroot)>>
                           \o FailureNotification(job, n.chroot)
                      ELSE <<>>,
                      <<>>, FALSE)
         ELSE Outcome([ended EXCEPT ![n.chroot].built_packages = TRUE,
                                    ![n.chroot].status = "success"],
                      report_successful_build(job, n) \o handle_fedora_review(job, n),
                      handle_testing_farm(job, n), TRUE)

\* the status the handler reads from self.build
StatusOf(db, chroot) == IF chroot \in DOMAIN db THEN db[chroot].status ELSE "absent"

\* the record of one run
Run(n, db, out) ==
    [n |-> n, before |-> StatusOf(db, n.chroot), success |-> out.success,
     reports |-> out.reports, tfTasks |-> out.tfTasks, wrote |-> out.builds # db]

Deliver(n, out) ==
    /\ builds' = out.builds
    /\ reports' = reports \o out.reports
    /\ tfTasks' = tfTasks \o out.tfTasks
    /\ runs' = Append(runs, Run(n, builds, out))
    /\ delivered' = delivered + 1
    /\ UNCHANGED coprJob
    /\ UNCHANGED <<dispatchVars, checkVars, parsed, auxVars>>

\* a copr.build.start message is delivered and CoprBuildStartHandler.run runs
CoprBuildStart ==
    /\ pipeline = "copr"
    /\ delivered < MaxDeliveries
    /\ \E chroot \in CoprChroots, timestamp \in BOOLEAN :
        LET n == StartNotification(chroot, timestamp)
        IN Deliver(n, CoprBuildStartHandler_run(builds, coprJob, n))

\* a copr.build.end message is delivered and CoprBuildEndHandler.run runs
CoprBuildEnd ==
    /\ pipeline = "copr"
    /\ delivered < MaxDeliveries
    /\ \E chroot \in CoprChroots, status \in CoprStatuses :
        LET n == EndNotification(chroot, status)
        IN Deliver(n, CoprBuildEndHandler_run(builds, coprJob, n))

\* a Copr build was submitted; the dispatchers are not involved
InitCopr ==
    /\ pipeline = "copr"
    /\ event = Ev("copr.End", TriggerOfKind("copr.End"), <<>>, None, None, TRUE, None)
    /\ hasConfig = TRUE
    /\ jobs = <<>>
    /\ prLabels = {}
    /\ labelChanges = 0
    /\ pc = "idle"
    /\ handlerQueue = {}
    /\ curHandler = None
    /\ jobQueue = <<>>
    /\ signatures = <<>>
    /\ taskResults = <<>>
    /\ procResults = <<>>
    /\ returned = NothingReturned
    /\ prechecked = <<>>
    /\ built = <<>>
    /\ submissions = <<>>
    /\ applyCalls = 0
    /\ lostSubs = {}
    /\ matchLog = <<>>
    /\ lastMatch = <<>>
    /\ ranJobs = FALSE
    /\ ciDispatched = FALSE
    /\ coprJob \in [sync : BOOLEAN, tests : {<<>>, <<PlainTestJob>>},
                     comments : BOOLEAN, review : BOOLEAN]
    /\ \E targets \in {CoprTargets, {"fedora-rawhide-x86_64"}} :
          builds = SubmittedBuilds(targets)
    /\ delivered = 0
    /\ reports = <<>>
    /\ tfTasks = <<>>
    /\ runs = <<>>
    /\ InitCheckIdle
    /\ InitParsed /\ InitAuxIdle

NextCopr ==
    \/ CoprBuildStart
    \/ CoprBuildEnd

SpecCopr == InitCopr /\ [][NextCopr]_vars

-----------------------------------------------------------------------------
(* The job matcher on its own: one call per event, job list and label set *)

\* the job definitions the matcher is tried on
MatchPool ==
    JobPool \cup
    { Job("bodhi_update", "koji_build", None, FALSE, {}, {}, None),
      Job("koji_build", "koji_build", None, FALSE, {}, {}, None),
      Job("copr_build", "pull_request", "id1", FALSE, {}, {}, None),
      Job("copr_build", "commit", None, FALSE, {}, {}, None) }

InitMatch ==
    /\ pipeline = "matcher"
    /\ event \in Events
    /\ hasConfig = TRUE
    /\ jobs \in SeqsUpTo(MatchPool, MaxJobs)
    /\ prLabels \in SUBSET Labels
    /\ labelChanges = 0
    /\ pc = "call"
    /\ handlerQueue = {}
    /\ curHandler = None
    /\ jobQueue = <<>>
    /\ signatures = <<>>
    /\ taskResults = <<>>
    /\ procResults = <<>>
    /\ returned = NothingReturned
    /\ prechecked = <<>>
    /\ built = <<>>
    /\ submissions = <<>>
    /\ applyCalls = 0
    /\ lostSubs = {}
    /\ matchLog = <<>>
    /\ lastMatch = <<>>
    /\ ranJobs = FALSE
    /\ ciDispatched = FALSE
    /\ InitCoprIdle
    /\ InitCheckIdle
    /\ InitParsed /\ InitAuxIdle

\* get_jobs_matching_event() is called for the event
MatchEvent ==
    /\ pipeline = "matcher"
    /\ pc = "call"
    /\ LET matching == get_jobs_matching_event(event, jobs, prLabels) IN
        /\ matchLog' = Append(matchLog, MatchEntry(prLabels, jobs, matching))
        /\ lastMatch' = matching
    /\ pc' = "matched"
    /\ UNCHANGED <<inputVars, jobs, prLabels, handlerQueue, curHandler, jobQueue,
                   signatures, taskResults, procResults, returned, prechecked, built,
                   submissions, applyCalls, lostSubs, ranJobs, ciDispatched>>
    /\ UNCHANGED <<coprVars, checkVars, parsed, auxVars>>

NextMatch == MatchEvent

SpecMatch == InitMatch /\ [][NextMatch]_vars

-----------------------------------------------------------------------------
(* The checker gate of one handler class: pre_check over get_checkers() *)

CheckedHandlers == {"CoprBuildHandler", "CoprBuildStartHandler", "CoprBuildEndHandler",
                    "SubmitPackageHandler"}

\* the tuple of checker classes a handler class declares
get_checkers(h) ==
    CASE h = "CoprBuildHandler" ->
             <<"IsJobConfigTriggerMatching", "IsGitForgeProjectAndEventOk",
               "CanActorRunTestsJob">>
      [] h = "CoprBuildEndHandler" ->
             <<"AreOwnerAndProjectMatchingJob", "IsPackageMatchingJobView">>
      [] h = "CoprBuildStartHandler" ->
             <<"AreOwnerAndProjectMatchingJob", "IsPackageMatchingJobView",
               "BuildNotAlreadyStarted">>
      [] h = "SubmitPackageHandler" -> <<"IsUserMaintainer">>
      [] OTHER -> <<>>

Checkers == UNION {Range(get_checkers(h)) : h \in CheckedHandlers}

\* CanActorRunTestsJob._pre_check returns True whatever the actor; the other
\* checkers answer from the event, the configuration and the forge
PossibleVerdicts ==
    {v \in [Checkers -> BOOLEAN] : v["CanActorRunTestsJob"] = TRUE}

\* "checks_pass and checker.pre_check()" with both operands evaluated
EvaluatesOperandAlways(pass) == TRUE

\* "checks_pass and checker.pre_check()": the right operand is evaluated
\* only when the left one is true
EvaluatesOperand(pass) == pass

InitCheck ==
    /\ pipeline = "checker"
    /\ event = Ev("copr.End", TriggerOfKind("copr.End"), <<>>, None, None, TRUE, None)
    /\ hasConfig = TRUE
    /\ jobs = <<>>
    /\ prLabels = {}
    /\ labelChanges = 0
    /\ pc = "idle"
    /\ handlerQueue = {}
    /\ curHandler = None
    /\ jobQueue = <<>>
    /\ signatures = <<>>
    /\ taskResults = <<>>
    /\ procResults = <<>>
    /\ returned = NothingReturned
    /\ prechecked = <<>>
    /\ built = <<>>
    /\ submissions = <<>>
    /\ applyCalls = 0
    /\ lostSubs = {}
    /\ matchLog = <<>>
    /\ lastMatch = <<>>
    /\ ranJobs = FALSE
    /\ ciDispatched = FALSE
    /\ InitCoprIdle
    /\ checkedHandler \in CheckedHandlers
    /\ checkerVerdicts \in PossibleVerdicts
    /\ checkerQueue = get_checkers(checkedHandler)
    /\ checks_pass = TRUE
    /\ instantiated = <<>>
    /\ evaluated = <<>>
    /\ checkResult = <<>>
    /\ InitParsed /\ InitAuxIdle

\* one iteration of the loop of pre_check: the checker is instantiated and
\* "checks_pass = checks_pass and checker.pre_check()" is executed
PreCheckIteration ==
    /\ pipeline = "checker"
    /\ checkResult = <<>>
    /\ checkerQueue # <<>>
    /\ LET checker_cls == Head(checkerQueue) IN
        /\ instantiated' = Append(instantiated, checker_cls)
        /\ IF EvaluatesOperand(checks_pass)
           THEN /\ evaluated' = Append(evaluated, checker_cls)
                /\ checks_pass' = (checks_pass /\ checkerVerdicts[checker_cls])
           ELSE UNCHANGED <<evaluated, checks_pass>>
    /\ checkerQueue' = Tail(checkerQueue)
    /\ UNCHANGED <<checkedHandler, checkerVerdicts, checkResult>>
    /\ UNCHANGED <<dispatchVars, coprVars, parsed, auxVars>>

\* the loop is over: "return checks_pass"
PreCheckReturn ==
    /\ pipeline = "checker"
    /\ checkResult = <<>>
    /\ checkerQueue = <<>>
    /\ checkResult' = <<checks_pass>>
    /\ UNCHANGED <<checkedHandler, checkerVerdicts, checkerQueue, checks_pass,
                   instantiated, evaluated>>
    /\ UNCHANGED <<dispatchVars, coprVars, parsed, auxVars>>

NextCheck ==
    \/ PreCheckIteration
    \/ PreCheckReturn

SpecCheck == InitCheck /\ [][NextCheck]_vars

-----------------------------------------------------------------------------
(* process_message of SteveJobs and MiniJobs: parser, event pre_check, process() *)

\* what parser(event) does: it returns the event object, returns None, or
\* raises (parse_testing_farm_results_event: "Failed to get ... details from TF.")
ParserOutcomes == {"event", "none", "raises"}

\* event_object.pre_check()
EventPreCheckVerdicts == BOOLEAN

\* every process_message runs the parser inside a try block
ParserFailurePropagatesNever(p) == FALSE

\* whether an exception of the parser leaves process_message: SteveJobs calls
\* the parser outside any try block, MiniJobs inside "try ... except Exception"
ParserFailurePropagates(p) == p = "steve"

InitMessage ==
    /\ pipeline \in {"steve", "mini"}
    /\ event \in Events
    /\ labelChanges = 0
    /\ pc = "message"
    /\ handlerQueue = {}
    /\ curHandler = None
    /\ jobQueue = <<>>
    /\ signatures = <<>>
    /\ taskResults = <<>>
    /\ procResults = <<>>
    /\ returned = NothingReturned
    /\ prechecked = <<>>
    /\ built = <<>>
    /\ submissions = <<>>
    /\ applyCalls = 0
    /\ lostSubs = {}
    /\ matchLog = <<>>
    /\ lastMatch = <<>>
    /\ ranJobs = FALSE
    /\ ciDispatched = FALSE
    /\ hasConfig \in (IF pipeline = "steve" THEN BOOLEAN ELSE {FALSE})
    /\ jobs \in (IF hasConfig THEN SeqsUpTo(JobPool, MaxJobs) ELSE {<<>>})
    /\ prLabels \in (IF pipeline = "steve" /\ event.has_pr THEN SUBSET Labels ELSE {{}})
    /\ InitCoprIdle
    /\ InitCheckIdle
    /\ parsed = "pending"
    /\ forge = "may_fail"
    /\ reportFailed = {}
    /\ InitCIIdle
    /\ InitRetryIdle
    /\ InitExtIdle

\* an event discarded by its pre_check is also counted as not handled
CountMessageRejectedAsNotHandled(m, outcome, pre_check) ==
    [events_processed |-> m.events_processed + 1,
     events_not_handled |->
        m.events_not_handled + (IF outcome = "none" \/ ~pre_check THEN 1 ELSE 0),
     events_pre_check_failed |->
        m.events_pre_check_failed + (IF outcome = "event" /\ ~pre_check THEN 1 ELSE 0)]

\* the counters after process_message has looked at what the parser returned
CountMessage(m, outcome, pre_check) ==
    [events_processed |-> m.events_processed + 1,
     events_not_handled |->
        m.events_not_handled + (IF outcome = "none" THEN 1 ELSE 0),
     events_pre_check_failed |->
        m.events_pre_check_failed + (IF outcome = "event" /\ ~pre_check THEN 1 ELSE 0)]

\* process_message up to the call of process()
ProcessMessage ==
    /\ pc = "message"
    /\ \E outcome \in ParserOutcomes, pre_check \in EventPreCheckVerdicts :
        /\ parsed' = outcome
        /\ metrics' = IF pipeline = "steve" /\ outcome # "raises"
                      THEN CountMessage(metrics, outcome, pre_check)
                      ELSE metrics
        /\ event_pre_check' = IF outcome # "event" THEN "not_called"
                              ELSE IF pre_check THEN "true" ELSE "false"
        /\ IF outcome = "raises"
           THEN IF ParserFailurePropagates(pipeline)
                THEN /\ returned' = Raised
                     /\ pc' = "raised"
                ELSE /\ returned' = Returns(<<TaskResults(FALSE, "Error in process_message")>>)
                     /\ pc' = "done"
           ELSE IF outcome = "none" \/ ~pre_check
                THEN /\ returned' = Returns(<<>>)
                     /\ pc' = "done"
                ELSE /\ pc' = "process"
                     /\ UNCHANGED returned
    /\ UNCHANGED <<pipeline, event, jobs, hasConfig, prLabels, labelChanges,
                   handlerQueue, curHandler, jobQueue, signatures, taskResults,
                   procResults, prechecked, built, submissions, applyCalls, lostSubs,
                   matchLog, lastMatch, ranJobs, ciDispatched>>
    /\ UNCHANGED <<coprVars, checkVars, reportVars, ciVars, retryVars, registryVars,
                   avantVars, lateVars>>

NextMessage ==
    \/ ProcessMessage
    \/ Process
    \/ FedoraCIStep
    \/ FedoraCIReturn
    \/ ProcessJobs
    \/ NextHandler
    \/ CreateTask
    \/ SubmitGroup
    \/ ProcessJobsReturn
    \/ ChangeLabels
    \/ MiniProcess
    \/ MiniMakeSignature
    \/ MiniSend

SpecMessage == InitMessage /\ [][NextMessage]_vars

-----------------------------------------------------------------------------
(* process_fedora_ci_jobs called for any event, with the actor and the
   contributors of the project *)

Users == {"alice", "bob"}

\* the events of the dispatcher and the comments that name the sync-package command
CIEvents ==
    Events \cup
    {Ev(k, TriggerOfKind(k), << <<"/packit-ci", "sync-package">> >>, None, None,
        k # "github.issue.Comment", None) : k \in CommentEventKinds}

InitCI ==
    /\ pipeline = "steve"
    /\ event \in CIEvents
    /\ hasConfig = FALSE
    /\ jobs = <<>>
    /\ prLabels = {}
    /\ labelChanges = 0
    /\ pc = "ci_call"
    /\ handlerQueue = {}
    /\ curHandler = None
    /\ jobQueue = <<>>
    /\ signatures = <<>>
    /\ taskResults = <<>>
    /\ procResults = <<>>
    /\ returned = NothingReturned
    /\ prechecked = <<>>
    /\ built = <<>>
    /\ submissions = <<>>
    /\ applyCalls = 0
    /\ lostSubs = {}
    /\ matchLog = <<>>
    /\ lastMatch = <<>>
    /\ ranJobs = FALSE
    /\ ciDispatched = FALSE
    /\ InitCoprIdle
    /\ InitCheckIdle
    /\ InitParsed
    /\ InitReportIdle
    /\ actor \in Users
    /\ contributors \in SUBSET Users
    /\ InitRetryIdle
    /\ InitExtIdle

\* process_fedora_ci_jobs up to its loop: matching_handlers
ProcessFedoraCIJobs ==
    /\ pc = "ci_call"
    /\ handlerQueue' = FedoraCIMatchingHandlers(event)
    /\ pc' = "ci_loop"
    /\ UNCHANGED <<inputVars, jobs, prLabels, curHandler, jobQueue, signatures,
                   taskResults, procResults, returned, prechecked, built,
                   submissions, applyCalls, lostSubs, matchLog, lastMatch,
                   ranJobs, ciDispatched>>
    /\ UNCHANGED <<coprVars, checkVars, parsed, auxVars>>

NextCI ==
    \/ ProcessFedoraCIJobs
    \/ FedoraCIStep
    \/ FedoraCIReturn

SpecCI == InitCI /\ [][NextCI]_vars

-----------------------------------------------------------------------------
(* Retry controller: a retriable task that fails is enqueued again as a new
   task carrying an incremented attempt counter, up to the limit of its
   failure class *)

DEFAULT_RETRY_LIMIT == 2
DEFAULT_RETRY_LIMIT_OUTAGE == 5

FailureClasses == {"internal", "outage"}

RetriableHandlers == {"CoprBuildHandler", "AvantPRBuildHandler", "FedoraCICOPRHandler"}

\* every failure class gets the limit of outages
RetryLimitOfOutages(class) == DEFAULT_RETRY_LIMIT_OUTAGE

\* the maximum number of retries of a failure class
RetryLimit(class) ==
    IF class = "outage" THEN DEFAULT_RETRY_LIMIT_OUTAGE ELSE DEFAULT_RETRY_LIMIT

\* the attempt counter carried by the task has reached the limit
is_last_try(task) == task.attempt >= RetryLimit(task.class)

Task(handler, class) ==
    [handler |-> handler, class |-> class, attempt |-> 0, enqueued |-> 0,
     state |-> "queued", results |-> <<>>]

InitRetry ==
    /\ pipeline = "retry"
    /\ event = Ev("copr.End", TriggerOfKind("copr.End"), <<>>, None, None, TRUE, None)
    /\ hasConfig = TRUE
    /\ jobs = <<>>
    /\ prLabels = {}
    /\ labelChanges = 0
    /\ pc = "idle"
    /\ handlerQueue = {}
    /\ curHandler = None
    /\ jobQueue = <<>>
    /\ signatures = <<>>
    /\ taskResults = <<>>
    /\ procResults = <<>>
    /\ returned = NothingReturned
    /\ prechecked = <<>>
    /\ built = <<>>
    /\ submissions = <<>>
    /\ applyCalls = 0
    /\ lostSubs = {}
    /\ matchLog = <<>>
    /\ lastMatch = <<>>
    /\ ranJobs = FALSE
    /\ ciDispatched = FALSE
    /\ InitCoprIdle
    /\ InitCheckIdle
    /\ InitParsed
    /\ InitReportIdle
    /\ InitCIIdle
    /\ InitExtIdle
    /\ tasks \in [1..MaxTasks -> {Task(h, c) : h \in RetriableHandlers, c \in FailureClasses}]

\* a queued task runs and succeeds
TaskSucceeds ==
    /\ pipeline = "retry"
    /\ \E i \in DOMAIN tasks :
        /\ tasks[i].state = "queued"
        /\ tasks' = [tasks EXCEPT
              ![i].state = "succeeded",
              ![i].results = Append(@, TaskResults(TRUE, "done"))]
    /\ UNCHANGED <<dispatchVars, coprVars, checkVars, parsed, reportVars, ciVars, extVars>>

\* a queued task runs and fails: it is enqueued again with the counter
\* incremented, or it ends with a failed result on its last try
TaskFails ==
    /\ pipeline = "retry"
    /\ \E i \in DOMAIN tasks :
        /\ tasks[i].state = "queued"
        /\ tasks' = IF is_last_try(tasks[i])
                     THEN [tasks EXCEPT
                             ![i].state = "failed",
                             ![i].results = Append(@, TaskResults(FALSE, "failed"))]
                     ELSE [tasks EXCEPT
                             ![i].attempt = @ + 1,
                             ![i].enqueued = @ + 1]
    /\ UNCHANGED <<dispatchVars, coprVars, checkVars, parsed, reportVars, ciVars, extVars>>

NextRetry ==
    \/ TaskSucceeds
    \/ TaskFails

SpecRetry == InitRetry /\ [][NextRetry]_vars

-----------------------------------------------------------------------------
(* Queries of the handler registry while events are processed *)

\* check_name_job of the check runs that are rerun
CheckNameJobs == {"rpm-build", "testing-farm", "nonsense"}

Lookup(fn, key, result, raised) ==
    [fn |-> fn, key |-> key, result |-> result, raised |-> raised]

\* the types of a list of job configs, in order
TypesOf(js) == [i \in 1..Len(js) |-> js[i].type]

InitRegistry ==
    /\ pipeline = "registry"
    /\ event = Ev("github.pr.Action", "pull_request", <<>>, None, None, TRUE, None)
    /\ hasConfig = TRUE
    /\ jobs = <<>>
    /\ prLabels = {}
    /\ labelChanges = 0
    /\ pc = "idle"
    /\ handlerQueue = {}
    /\ curHandler = None
    /\ jobQueue = <<>>
    /\ signatures = <<>>
    /\ taskResults = <<>>
    /\ procResults = <<>>
    /\ returned = NothingReturned
    /\ prechecked = <<>>
    /\ built = <<>>
    /\ submissions = <<>>
    /\ applyCalls = 0
    /\ lostSubs = {}
    /\ matchLog = <<>>
    /\ lastMatch = <<>>
    /\ ranJobs = FALSE
    /\ ciDispatched = FALSE
    /\ InitCoprIdle
    /\ InitCheckIdle
    /\ InitParsed
    /\ InitReportIdle
    /\ InitCIIdle
    /\ InitRetryIdle
    /\ tables = RegisteredTables
    /\ lookups = <<>>
    /\ db_project_object = None
    /\ metrics = NoMetrics
    /\ event_pre_check = "not_called"
    /\ InitLateIdle

\* get_handlers_for_comment(comment, prefix)
GetHandlersForComment ==
    /\ pipeline = "registry"
    /\ Len(lookups) < MaxLookups
    /\ \E comment \in Comments :
        LET commands == get_packit_commands_from_comment(comment, comment_command_prefix)
        IN IF commands = <<>>
           THEN /\ lookups' = Append(lookups,
                        Lookup("get_handlers_for_comment", None, {}, FALSE))
                /\ UNCHANGED tables
           ELSE LET key == commands[1]
                    raised == SubscriptRaises(tables.comment, key)
                IN /\ lookups' = Append(lookups,
                        Lookup("get_handlers_for_comment", key,
                               IF raised THEN {} ELSE Subscript(tables.comment, key),
                               raised))
                   /\ tables' = IF raised THEN tables
                                ELSE [tables EXCEPT
                                        !.comment = AfterSubscript(@, key)]
    /\ UNCHANGED <<dispatchVars, coprVars, checkVars, parsed, reportVars, ciVars,
                   retryVars, avantVars, metricsVars, lateVars>>

\* get_handlers_for_check_rerun(check_name_job)
GetHandlersForCheckRerun ==
    /\ pipeline = "registry"
    /\ Len(lookups) < MaxLookups
    /\ \E key \in CheckNameJobs :
        LET raised == SubscriptRaises(tables.check, key)
        IN /\ lookups' = Append(lookups,
                Lookup("get_handlers_for_check_rerun", key,
                       IF raised THEN {} ELSE Subscript(tables.check, key), raised))
           /\ tables' = IF raised THEN tables
                        ELSE [tables EXCEPT !.check = AfterSubscript(@, key)]
    /\ UNCHANGED <<dispatchVars, coprVars, checkVars, parsed, reportVars, ciVars,
                   retryVars, avantVars, metricsVars, lateVars>>

\* SteveJobs.get_handlers_for_event() for an event and a configured job list:
\* the handlers named by the comment or the check rerun, then
\* MAP_JOB_TYPE_TO_HANDLER[job.type] | MAP_REQUIRED_JOB_TYPE_TO_HANDLER[job.type]
\* for every matching job
GetHandlersForEvent ==
    /\ pipeline = "registry"
    /\ Len(lookups) < MaxLookups
    /\ \E ev \in Events, js \in SeqsUpTo(JobPool, 1) :
        LET matching == get_jobs_matching_event(ev, js, {})
            commands == get_packit_commands_from_comment(ev.comment,
                                                         comment_command_prefix)
            commentKeys == IF IsCommentEvent(ev) /\ commands # <<>>
                           THEN <<commands[1]>> ELSE <<>>
            checkKeys == IF IsRerun(ev) THEN <<ev.check_name_job>> ELSE <<>>
            jobKeys == TypesOf(matching)
            raised == \/ \E i \in DOMAIN commentKeys :
                            SubscriptRaises(tables.comment, commentKeys[i])
                      \/ \E i \in DOMAIN checkKeys :
                            SubscriptRaises(tables.check, checkKeys[i])
                      \/ \E i \in DOMAIN jobKeys :
                            \/ SubscriptRaises(tables.job, jobKeys[i])
                            \/ SubscriptRaises(tables.required, jobKeys[i])
        IN /\ lookups' = Append(lookups,
                Lookup("get_handlers_for_event", ev.kind,
                       IF raised THEN {} ELSE get_handlers_for_event(ev, matching),
                       raised))
           /\ tables' = IF raised THEN tables
                        ELSE [tables EXCEPT
                                !.comment = AfterSubscripts(@, commentKeys),
                                !.check = AfterSubscripts(@, checkKeys),
                                !.job = AfterSubscripts(@, jobKeys),
                                !.required = AfterSubscripts(@, jobKeys)]
    /\ UNCHANGED <<dispatchVars, coprVars, checkVars, parsed, reportVars, ciVars,
                   retryVars, avantVars, metricsVars, lateVars>>

\* Parser.parse_check_name(check_name, ...) up to its membership test: the
\* job name it goes on with, none when it returns None
ParseCheckName ==
    /\ pipeline = "registry"
    /\ Len(lookups) < MaxLookups
    /\ \E check_name_job \in CheckNameJobs :
        lookups' = Append(lookups,
            Lookup("parse_check_name", check_name_job,
                   IF Contains(tables.check, check_name_job)
                   THEN {check_name_job} ELSE {},
                   FALSE))
    /\ UNCHANGED tables
    /\ UNCHANGED <<dispatchVars, coprVars, checkVars, parsed, reportVars, ciVars,
                   retryVars, avantVars, metricsVars, lateVars>>

NextRegistry ==
    \/ GetHandlersForComment
    \/ GetHandlersForCheckRerun
    \/ GetHandlersForEvent
    \/ ParseCheckName

SpecRegistry == InitRegistry /\ [][NextRegistry]_vars

-----------------------------------------------------------------------------
(* get_packit_commands_from_comment on its own: one call per comment text *)

CommentTokens == {"/packit", "/packit-stg", "build"}

\* the stripped lines of a comment: blank, up to MaxTokens tokens, or a full
\* line followed by one argument
CommentLines ==
    SeqsUpTo(CommentTokens, MaxTokens)
    \cup {line \o <<"--arg">> : line \in [1..MaxTokens -> CommentTokens]}

\* packit_comment_command_prefix of the production and the staging deployment
CommandPrefixes == {"/packit", "/packit-stg"}

InitComment ==
    /\ pipeline = "utils"
    /\ \E text \in SeqsUpTo(CommentLines, MaxLines) :
          event = Ev("github.pr.Comment", "pull_request", text, None, None, TRUE, None)
    /\ hasConfig = TRUE
    /\ jobs = <<>>
    /\ prLabels = {}
    /\ labelChanges = 0
    /\ pc = "call"
    /\ handlerQueue = {}
    /\ curHandler = None
    /\ jobQueue = <<>>
    /\ signatures = <<>>
    /\ taskResults = <<>>
    /\ procResults = <<>>
    /\ returned = NothingReturned
    /\ prechecked = <<>>
    /\ built = <<>>
    /\ submissions = <<>>
    /\ applyCalls = 0
    /\ lostSubs = {}
    /\ matchLog = <<>>
    /\ lastMatch = <<>>
    /\ ranJobs = FALSE
    /\ ciDispatched = FALSE
    /\ InitCoprIdle
    /\ InitCheckIdle
    /\ InitParsed
    /\ InitAuxIdle

\* get_packit_commands_from_comment(event.comment, prefix)
GetPackitCommands ==
    /\ pipeline = "utils"
    /\ pc = "call"
    /\ \E prefix \in CommandPrefixes :
        lookups' = Append(lookups,
            Lookup("get_packit_commands_from_comment", prefix,
                   get_packit_commands_from_comment(event.comment, prefix), FALSE))
    /\ pc' = "done"
    /\ UNCHANGED <<inputVars, jobs, prLabels, handlerQueue, curHandler, jobQueue,
                   signatures, taskResults, procResults, returned, prechecked, built,
                   submissions, applyCalls, lostSubs, matchLog, lastMatch, ranJobs,
                   ciDispatched>>
    /\ UNCHANGED <<coprVars, checkVars, parsed, reportVars, ciVars, retryVars, tables, avantVars, metricsVars, lateVars>>

NextComment == GetPackitCommands

SpecComment == InitComment /\ [][NextComment]_vars

-----------------------------------------------------------------------------
(* is_packit_config_present for a Forgejo pull-request event: the package
   configuration synthesized from the event body *)

\* a local variable that no statement has assigned yet
Unbound == "unbound"

\* a line of the body: the first marker found in it and the stripped text
\* after the marker
BodyLine(marker, rest) == [marker |-> marker, rest |-> rest]

BodyLines ==
    { BodyLine("Package Name:", "foo"), BodyLine("Package Name:", ""),
      BodyLine("package_name:", "bar"), BodyLine("package_name:", ""),
      BodyLine("Version:", "1.0"), BodyLine("License:", "MIT"),
      BodyLine(None, "please review") }

\* event.body: the description of the pull request; None (is_none) when the
\* payload has none
Body(is_none, lines) == [is_none |-> is_none, lines |-> lines]

ForgejoBodies ==
    {Body(TRUE, <<>>)} \cup {Body(FALSE, lines) : lines \in SeqsUpTo(BodyLines, MaxLines)}

\* package_name after the loop over the lines of the body
RECURSIVE ForgejoPackageName(_, _)
ForgejoPackageName(lines, package_name) ==
    IF lines = <<>> THEN package_name
    ELSE LET line == Head(lines) IN
         IF line.marker \in {"Package Name:", "package_name:"} /\ line.rest # ""
         THEN ForgejoPackageName(Tail(lines), line.rest)
         ELSE ForgejoPackageName(Tail(lines), package_name)

\* the two jobs of the synthesized PackageConfig
ForgejoJobsFor(package_name) ==
    [i \in 1..Len(ForgejoJobs) |-> [ForgejoJobs[i] EXCEPT !.package = package_name]]

\* the Forgejo branch of is_packit_config_present: the body is stripped and
\* split, the lines are scanned, and the configuration is built from
\* package_name and specfile_path
ForgejoConfig(body) ==
    IF body.is_none
    THEN [raised |-> TRUE, result |-> None, jobs |-> <<>>]
    ELSE LET package_name == ForgejoPackageName(body.lines, Unbound) IN
         IF package_name = Unbound
         THEN [raised |-> TRUE, result |-> None, jobs |-> <<>>]
         ELSE [raised |-> FALSE, result |-> TRUE, jobs |-> ForgejoJobsFor(package_name)]

InitForgejo ==
    /\ pipeline = "forgejo"
    /\ \E k \in {"forgejo.pr.Comment", "forgejo.pr.Action"}, body \in ForgejoBodies :
          event = [kind |-> k, trigger |-> "pull_request", comment |-> <<>>,
                   job_identifier |-> None, check_name_job |-> None, has_pr |-> TRUE,
                   package_name |-> None, body |-> body]
    /\ hasConfig = FALSE
    /\ jobs = <<>>
    /\ prLabels = {}
    /\ labelChanges = 0
    /\ pc = "call"
    /\ handlerQueue = {}
    /\ curHandler = None
    /\ jobQueue = <<>>
    /\ signatures = <<>>
    /\ taskResults = <<>>
    /\ procResults = <<>>
    /\ returned = NothingReturned
    /\ prechecked = <<>>
    /\ built = <<>>
    /\ submissions = <<>>
    /\ applyCalls = 0
    /\ lostSubs = {}
    /\ matchLog = <<>>
    /\ lastMatch = <<>>
    /\ ranJobs = FALSE
    /\ ciDispatched = FALSE
    /\ InitCoprIdle
    /\ InitCheckIdle
    /\ InitParsed
    /\ InitAuxIdle

\* self.is_packit_config_present() of process_jobs
ForgejoConfigPresent ==
    /\ pipeline = "forgejo"
    /\ pc = "call"
    /\ LET out == ForgejoConfig(event.body) IN
        /\ lookups' = Append(lookups, Lookup("is_packit_config_present", event.kind,
                                             out.result, out.raised))
        /\ jobs' = out.jobs
    /\ pc' = "done"
    /\ UNCHANGED <<inputVars, prLabels, handlerQueue, curHandler, jobQueue,
                   signatures, taskResults, procResults, returned, prechecked, built,
                   submissions, applyCalls, lostSubs, matchLog, lastMatch, ranJobs,
                   ciDispatched>>
    /\ UNCHANGED <<coprVars, checkVars, parsed, reportVars, ciVars, retryVars, tables,
                   avantVars, metricsVars, lateVars>>

NextForgejo == ForgejoConfigPresent

SpecForgejo == InitForgejo /\ [][NextForgejo]_vars

-----------------------------------------------------------------------------
(* process_message of avant Jobs *)

\* the classes named in the tuple of the isinstance() call
AvantAcceptedTypes == {"forgejo.pr.Action", "forgejo.pr.Comment", "testing_farm.Result"}

\* event.db_project_object: None, or the stored model object
DbProjectObjects == {None, "ProjectEventModel"}

\* what the parser returns to avant: an event object or None
AvantParserOutcomes == {"event", "none"}

\* "(forgejo.pr.Action, forgejo.pr.Comment, testing_farm.Result) and
\* self.event.db_project_object": the tuple is not empty, hence true, and the
\* value of the expression is its second operand
ClassInfoOfTypeTest(types, db) == IF types # {} THEN db ELSE "()"

\* isinstance(obj, classinfo) raises TypeError unless classinfo is a class or a
\* tuple of classes
IsInstanceRaises(classinfo) == classinfo \notin EventKinds

\* the exception of the type test: reading db_project_object of None raises
\* AttributeError, then isinstance() is called with the attribute's value
TypeTestError(outcome, db) ==
    IF outcome = "none" THEN "AttributeError"
    ELSE IF IsInstanceRaises(ClassInfoOfTypeTest(AvantAcceptedTypes, db))
         THEN "TypeError" ELSE None

InitAvantMessage ==
    /\ pipeline = "avant"
    /\ event \in Events
    /\ hasConfig = FALSE
    /\ jobs = <<>>
    /\ prLabels = {}
    /\ labelChanges = 0
    /\ pc = "message"
    /\ handlerQueue = {}
    /\ curHandler = None
    /\ jobQueue = <<>>
    /\ signatures = <<>>
    /\ taskResults = <<>>
    /\ procResults = <<>>
    /\ returned = NothingReturned
    /\ prechecked = <<>>
    /\ built = <<>>
    /\ submissions = <<>>
    /\ applyCalls = 0
    /\ lostSubs = {}
    /\ matchLog = <<>>
    /\ lastMatch = <<>>
    /\ ranJobs = FALSE
    /\ ciDispatched = FALSE
    /\ InitCoprIdle
    /\ InitCheckIdle
    /\ parsed = "pending"
    /\ InitReportIdle
    /\ InitCIIdle
    /\ InitRetryIdle
    /\ InitRegistryIdle
    /\ db_project_object \in DbProjectObjects
    /\ metrics = NoMetrics
    /\ event_pre_check = "not_called"
    /\ InitLateIdle

\* Jobs.process_message up to the call of process_jobs()
AvantProcessMessage ==
    /\ pipeline = "avant"
    /\ pc = "message"
    /\ \E outcome \in AvantParserOutcomes :
        /\ parsed' = outcome
        /\ IF TypeTestError(outcome, db_project_object) # None
           THEN /\ returned' = Raised
                /\ pc' = "raised"
           ELSE IF event.kind = ClassInfoOfTypeTest(AvantAcceptedTypes, db_project_object)
                THEN /\ pc' = "process"
                     /\ UNCHANGED returned
                ELSE /\ returned' = Returns(<<TaskResults(TRUE, "Job Created.")>>)
                     /\ pc' = "done"
    /\ UNCHANGED <<pipeline, event, jobs, hasConfig, prLabels, labelChanges,
                   handlerQueue, curHandler, jobQueue, signatures, taskResults,
                   procResults, prechecked, built, submissions, applyCalls, lostSubs,
                   matchLog, lastMatch, ranJobs, ciDispatched>>
    /\ UNCHANGED <<coprVars, checkVars, auxVars>>

NextAvantMessage == AvantProcessMessage

SpecAvantMessage == InitAvantMessage /\ [][NextAvantMessage]_vars

-----------------------------------------------------------------------------
(* create_tasks of avant Jobs called with a handler class *)

\* the handler classes avant/jobs.py imports
AvantHandlerClasses == {"CoprBuildHandler", "TestingFarmHandler"}

InitAvantCreate ==
    /\ pipeline = "avant"
    /\ event \in Events
    /\ hasConfig = FALSE
    /\ jobs = <<>>
    /\ prLabels = {}
    /\ labelChanges = 0
    /\ pc = "avant_loop"
    /\ handlerQueue \in {{kls} : kls \in AvantHandlerClasses}
    /\ curHandler = None
    /\ jobQueue = <<>>
    /\ signatures = <<>>
    /\ taskResults = <<>>
    /\ procResults = <<>>
    /\ returned = NothingReturned
    /\ prechecked = <<>>
    /\ built = <<>>
    /\ submissions = <<>>
    /\ applyCalls = 0
    /\ lostSubs = {}
    /\ matchLog = <<>>
    /\ lastMatch = <<>>
    /\ ranJobs = FALSE
    /\ ciDispatched = FALSE
    /\ InitCoprIdle
    /\ InitCheckIdle
    /\ InitParsed
    /\ InitAuxIdle

NextAvantCreate == AvantCreateTasks

SpecAvantCreate == InitAvantCreate /\ [][NextAvantCreate]_vars

-----------------------------------------------------------------------------
(* run() of the handlers that submit a Copr build *)

\* what os.getenv("CANCEL_RUNNING_JOBS") returns: None when the variable is
\* not in the environment, else its value
CancelRunningJobsValues == {None, "", "1", "false"}

\* the running builds are cancelled in every deployment
CancelOptInAlways(value) == TRUE

\* "if os.getenv(...)": None and the empty string are false
CancelOptIn(value) == value \notin {None, ""}

BuildHandlers == {"CoprBuildHandler", "AvantPRBuildHandler"}

BuildIds == 1..MaxBuilds

\* a build of the Copr project
CoprBuild(id, target, state) == [id |-> id, target |-> target, state |-> state]

\* the builds of the project when the handler starts: running or ended
EarlierBuilds ==
    SUBSET {CoprBuild(id, t, st) : id \in BuildIds, t \in {"fedora-rawhide-x86_64"},
                                    st \in {"running", "ended"}}

\* copr_build_helper.cancel_running_builds(): every running build of the
\* targets of the new build is cancelled
cancel_running_builds(bs, targets) ==
    {IF b.state = "running" /\ b.target \in targets
     THEN CoprBuild(b.id, b.target, "canceled") ELSE b : b \in bs}

\* copr_build_helper.run_copr_build_from_source_script(): the new build
run_copr_build_from_source_script(bs, targets) ==
    bs \cup {CoprBuild(MaxBuilds + 1, t, "running") : t \in targets}

InitBuildRun ==
    /\ pipeline = "build"
    /\ event = Ev("github.pr.Action", "pull_request", <<>>, None, None, TRUE, None)
    /\ hasConfig = TRUE
    /\ jobs = <<>>
    /\ prLabels = {}
    /\ labelChanges = 0
    /\ pc = "run"
    /\ handlerQueue = {}
    /\ curHandler \in BuildHandlers
    /\ jobQueue = <<>>
    /\ signatures = <<>>
    /\ taskResults = <<>>
    /\ procResults = <<>>
    /\ returned = NothingReturned
    /\ prechecked = <<>>
    /\ built = <<>>
    /\ submissions = <<>>
    /\ applyCalls = 0
    /\ lostSubs = {}
    /\ matchLog = <<>>
    /\ lastMatch = <<>>
    /\ ranJobs = FALSE
    /\ ciDispatched = FALSE
    /\ InitCoprIdle
    /\ InitCheckIdle
    /\ InitParsed
    /\ InitReportIdle
    /\ InitCIIdle
    /\ InitRetryIdle
    /\ InitRegistryIdle
    /\ db_project_object = None
    /\ metrics = NoMetrics
    /\ event_pre_check = "not_called"
    /\ cancel_running_jobs \in CancelRunningJobsValues
    /\ coprBuilds \in {bs \in EarlierBuilds : \A a, b \in bs : a.id = b.id => a = b}
    /\ buildOps = <<>>
    /\ workers = <<>>

\* run() up to the submission: the cancellation of the opt-in mode
BuildRunCancel ==
    /\ pipeline = "build"
    /\ pc = "run"
    /\ IF CancelOptIn(cancel_running_jobs)
       THEN /\ coprBuilds' = cancel_running_builds(coprBuilds, {"fedora-rawhide-x86_64"})
            /\ buildOps' = Append(buildOps, "cancel_running_builds")
       ELSE UNCHANGED <<coprBuilds, buildOps>>
    /\ pc' = "submit"
    /\ UNCHANGED <<pipeline, event, jobs, hasConfig, prLabels, labelChanges,
                   handlerQueue, curHandler, jobQueue, signatures, taskResults,
                   procResults, returned, prechecked, built, submissions, applyCalls,
                   lostSubs, matchLog, lastMatch, ranJobs, ciDispatched>>
    /\ UNCHANGED <<coprVars, checkVars, parsed, reportVars, ciVars, retryVars,
                   registryVars, avantVars, metricsVars, cancel_running_jobs,
                   workerVars>>

\* return self.copr_build_helper.run_copr_build_from_source_script()
BuildRunSubmit ==
    /\ pipeline = "build"
    /\ pc = "submit"
    /\ coprBuilds' = run_copr_build_from_source_script(coprBuilds, {"fedora-rawhide-x86_64"})
    /\ buildOps' = Append(buildOps, "run_copr_build_from_source_script")
    /\ returned' = Returns(<<TaskResults(TRUE, "build submitted")>>)
    /\ pc' = "done"
    /\ UNCHANGED <<pipeline, event, jobs, hasConfig, prLabels, labelChanges,
                   handlerQueue, curHandler, jobQueue, signatures, taskResults,
                   procResults, prechecked, built, submissions, applyCalls,
                   lostSubs, matchLog, lastMatch, ranJobs, ciDispatched>>
    /\ UNCHANGED <<coprVars, checkVars, parsed, reportVars, ciVars, retryVars,
                   registryVars, avantVars, metricsVars, cancel_running_jobs,
                   workerVars>>

NextBuildRun ==
    \/ BuildRunCancel
    \/ BuildRunSubmit

SpecBuildRun == InitBuildRun /\ [][NextBuildRun]_vars

-----------------------------------------------------------------------------
(* CoprBuildEndHandler.run step by step: workers that were handed the same
   build-end notification and share only the persisted build rows *)

Workers == {"worker1", "worker2"}

\* the package configs of the build: their tests jobs
TestJobPool ==
    { PlainTestJob,
      TestJob("labelled", "pull_request", TRUE, CoprTargets),
      TestJob("commit", "commit", TRUE, CoprTargets),
      TestJob("aarch64", "pull_request", FALSE, {"fedora-rawhide-aarch64"}) }

\* a worker: its position in run(), the notification it was handed, what it
\* reported and dispatched, and the success flag of its TaskResults
Worker(at, n, reps, tf, success) ==
    [pc |-> at, n |-> n, reports |-> reps, tfTasks |-> tf, success |-> success]

\* the rows when the end notification arrives: as submitted, or after the
\* end of the SRPM build was handled
BuildsAtEnd(job, targets) ==
    { SubmittedBuilds(targets) } \cup
    { CoprBuildEndHandler_run(SubmittedBuilds(targets), job,
                              EndNotification(COPR_SRPM_CHROOT, status)).builds :
        status \in CoprStatuses }

InitEndWorkers ==
    /\ pipeline = "workers"
    /\ event = Ev("copr.End", TriggerOfKind("copr.End"), <<>>, None, None, TRUE, None)
    /\ hasConfig = TRUE
    /\ jobs = <<>>
    /\ prLabels = {}
    /\ labelChanges = 0
    /\ pc = "idle"
    /\ handlerQueue = {}
    /\ curHandler = None
    /\ jobQueue = <<>>
    /\ signatures = <<>>
    /\ taskResults = <<>>
    /\ procResults = <<>>
    /\ returned = NothingReturned
    /\ prechecked = <<>>
    /\ built = <<>>
    /\ submissions = <<>>
    /\ applyCalls = 0
    /\ lostSubs = {}
    /\ matchLog = <<>>
    /\ lastMatch = <<>>
    /\ ranJobs = FALSE
    /\ ciDispatched = FALSE
    /\ coprJob \in [sync : BOOLEAN, tests : SeqsUpTo(TestJobPool, MaxTestJobs),
                     comments : {FALSE}, review : BOOLEAN]
    /\ \E targets \in {CoprTargets, {"fedora-rawhide-x86_64"}} :
          builds \in BuildsAtEnd(coprJob, targets)
    /\ delivered = 0
    /\ reports = <<>>
    /\ tfTasks = <<>>
    /\ runs = <<>>
    /\ InitCheckIdle
    /\ InitParsed
    /\ InitReportIdle
    /\ InitCIIdle
    /\ InitRetryIdle
    /\ InitRegistryIdle
    /\ db_project_object = None
    /\ metrics = NoMetrics
    /\ event_pre_check = "not_called"
    /\ InitBuildRunIdle
    /\ \E chroot \in CoprChroots, status \in CoprStatuses :
          workers = [w \in Workers |->
                        Worker("check", EndNotification(chroot, status), <<>>, <<>>, None)]

\* worker w moves on: its position, what it reported and dispatched in the step
WorkerStep(w, at, reps, tf, success) ==
    /\ workers' = [workers EXCEPT ![w] =
                      Worker(at, @.n, @.reports \o reps, @.tfTasks \o tf, success)]
    /\ reports' = reports \o reps
    /\ tfTasks' = tfTasks \o tf
    /\ UNCHANGED <<coprJob, delivered, runs>>
    /\ UNCHANGED <<dispatchVars, checkVars, parsed, reportVars, ciVars, retryVars,
                   registryVars, avantVars, metricsVars, buildRunVars>>

\* "if not self.build" and "if self.build.status in [success, failure]"
EndCheck(w) ==
    /\ pipeline = "workers"
    /\ workers[w].pc = "check"
    /\ LET n == workers[w].n IN
       IF n.chroot \notin DOMAIN builds THEN WorkerStep(w, "done", <<>>, <<>>, FALSE)
       ELSE IF AlreadyProcessed(builds[n.chroot].status)
            THEN WorkerStep(w, "done", <<>>, <<>>, TRUE)
       ELSE WorkerStep(w, "report", <<>>, <<>>, None)
    /\ UNCHANGED builds

\* set_end_time, set_srpm_url and what the branch of the notification does
\* before it writes the status of self.build
EndReport(w) ==
    /\ pipeline = "workers"
    /\ workers[w].pc = "report"
    /\ LET n == workers[w].n
           ended == set_srpm_url(set_end_time(builds, n))
       IN IF n.chroot = COPR_SRPM_CHROOT
          THEN IF n.status # COPR_API_SUCC_STATE
               THEN /\ builds' = ended
                    /\ WorkerStep(w, "set_status",
                                  <<Report("status", "failure", "all", None)>>
                                      \o FailureNotification(coprJob, None), <<>>, None)
               ELSE /\ builds' = [c \in DOMAIN ended |->
                                     IF c \in CoprTargets
                                     THEN [ended[c] EXCEPT !.status = "pending"]
                                     ELSE ended[c]]
                    /\ WorkerStep(w, "set_status", <<>>, <<>>, None)
          ELSE /\ builds' = ended
               /\ IF n.status # COPR_API_SUCC_STATE
                  THEN WorkerStep(w, "set_status",
                                  IF ended[COPR_SRPM_CHROOT].status # "failure"
                                  THEN <<Report("status", "failure", "all", n.chroot)>>
                                       \o FailureNotification(coprJob, n.chroot)
                                  ELSE <<>>, <<>>, None)
                  ELSE WorkerStep(w, "set_status", report_successful_build(coprJob, n),
                                  <<>>, None)

\* self.build.set_status(...) of the branch, and the return of the branches
\* that end with it
EndSetStatus(w) ==
    /\ pipeline = "workers"
    /\ workers[w].pc = "set_status"
    /\ LET n == workers[w].n IN
       IF n.status # COPR_API_SUCC_STATE
       THEN /\ builds' = [builds EXCEPT ![n.chroot].status = "failure"]
            /\ WorkerStep(w, "done", <<>>, <<>>, FALSE)
       ELSE IF n.chroot = COPR_SRPM_CHROOT
       THEN /\ builds' = [builds EXCEPT ![n.chroot].status = "success"]
            /\ WorkerStep(w, "done",
                          <<Report("status", "running", ReportScope(coprJob), None)>>,
                          <<>>, TRUE)
       ELSE /\ builds' = [builds EXCEPT ![n.chroot].built_packages = TRUE,
                                        ![n.chroot].status = "success"]
            /\ WorkerStep(w, "testing_farm", <<>>, <<>>, None)

\* handle_fedora_review (avant) and handle_testing_farm, then the return
EndTestingFarm(w) ==
    /\ pipeline = "workers"
    /\ workers[w].pc = "testing_farm"
    /\ WorkerStep(w, "done", handle_fedora_review(coprJob, workers[w].n),
                  handle_testing_farm(coprJob, workers[w].n), TRUE)
    /\ UNCHANGED builds

NextEndWorkers ==
    \/ \E w \in Workers : EndCheck(w)
    \/ \E w \in Workers : EndReport(w)
    \/ \E w \in Workers : EndSetStatus(w)
    \/ \E w \in Workers : EndTestingFarm(w)

SpecEndWorkers == InitEndWorkers /\ [][NextEndWorkers]_vars

-----------------------------------------------------------------------------
(* Helpers of the properties *)

RECURSIVE Flatten(_)
Flatten(ss) == IF ss = <<>> THEN <<>> ELSE Head(ss) \o Flatten(Tail(ss))

Count(s, x) == Cardinality({i \in 1..Len(s) : s[i] = x})

NoDuplicates(s) == \A i, j \in 1..Len(s) : s[i] = s[j] => i = j

\* the signatures create_tasks owes for the pre_check calls of a handler
RECURSIVE OwedSignatures(_, _)
OwedSignatures(log, handler) ==
    IF log = <<>> THEN <<>>
    ELSE IF Head(log).handler = handler /\ Head(log).verdict
         THEN <<Signature(handler, Head(log).job)>> \o OwedSignatures(Tail(log), handler)
         ELSE OwedSignatures(Tail(log), handler)

-----------------------------------------------------------------------------
(* C1 *)

\* C1, first half: while create_tasks runs for a handler, its list of
\* signatures holds exactly one signature for each job config whose pre_check
\* returned true, none for the others; the group it submits is that list.
C1_OnePerPassingJob ==
    (pipeline = "steve" /\ pc = "create_tasks")
        => signatures = OwedSignatures(prechecked, curHandler)

\* C1: exactly one signature per passing job config, and across one run of
\* process_jobs no (handler, job config) pair yields more than one signature.
C1_ExactlyOneTaskPerJob ==
    /\ C1_OnePerPassingJob
    /\ (pipeline = "steve" /\ ranJobs) => NoDuplicates(built)

-----------------------------------------------------------------------------
(* C2 *)

\* C2: the list returned by get_jobs_matching_event never contains two
\* structurally equal job definitions.
C2_MatcherOutputHasNoDuplicates ==
    \A i \in 1..Len(matchLog) : NoDuplicates(matchLog[i].out)

-----------------------------------------------------------------------------
(* C3 *)

Pairs(log) == {[handler |-> log[i].handler, job |-> log[i].job] : i \in 1..Len(log)}

\* C3: in SteveJobs a signature for a (handler, job) pair is built only after
\* pre_check for that pair returned true: for every pair, the signatures built
\* so far are as many as the pre_check calls that returned true, and a pair
\* whose pre_check was not run has none.
C3_SignatureOnlyAfterPassedPreCheck ==
    pipeline = "steve" =>
        /\ \A i \in 1..Len(built) :
              \E k \in 1..Len(prechecked) :
                  prechecked[k] = PreCheck(built[i].handler, built[i].job, TRUE)
        /\ \A p \in Pairs(prechecked) :
              Count(built, Signature(p.handler, p.job))
                  = Count(prechecked, PreCheck(p.handler, p.job, TRUE))

\* a signature was built while another pair was rejected by its pre_check, in
\* create_tasks and in process_fedora_ci_jobs
C3_Witness ==
    /\ pipeline = "steve"
    /\ pc = "done"
    /\ Len(built) >= 1
    /\ \E k \in 1..Len(prechecked) : ~prechecked[k].verdict
    /\ ranJobs

-----------------------------------------------------------------------------
(* C4 *)

\* C4 as claimed: all signatures of one event go to the backend in a single
\* group submission, one apply_async call per event.
C4_OneSubmissionPerEvent ==
    (pipeline = "steve" /\ pc = "done") => applyCalls <= 1

HandlerOfGroup(g) == {g[i].handler : i \in 1..Len(g)}

\* C4 as amended: process_jobs makes one group submission per handler class
\* returned by get_handlers_for_event, holding exactly the signatures built for
\* that handler; process_fedora_ci_jobs submits each signature by itself.
C4_OneSubmissionPerHandler ==
    (pipeline = "steve" /\ pc = "done") =>
        /\ applyCalls = Len(submissions)
        /\ Flatten(submissions) = built
        /\ \A i, j \in 1..Len(submissions) :
              i # j => HandlerOfGroup(submissions[i]) \cap HandlerOfGroup(submissions[j]) = {}
        /\ \A i \in 1..Len(submissions) : Cardinality(HandlerOfGroup(submissions[i])) <= 1
        /\ ciDispatched => \A i \in 1..Len(submissions) : Len(submissions[i]) = 1
        /\ (ranJobs /\ matchLog # <<>>) =>
              applyCalls = Cardinality(get_handlers_for_event(event, matchLog[1].out))

\* an event with two matching handler classes, one of them with two signatures
C4_Witness ==
    /\ pipeline = "steve"
    /\ pc = "done"
    /\ ranJobs
    /\ applyCalls = 2
    /\ \E i \in 1..Len(submissions) : Len(submissions[i]) = 2

-----------------------------------------------------------------------------
(* C5 *)

-----------------------------------------------------------------------------
(* C8 *)

\* no registered handler matches the event: the dispatcher reached its lookup
\* of the handlers and found none
NoHandlerMatches ==
    /\ pc = "done"
    /\ CASE pipeline = "steve" ->
              /\ ranJobs
              /\ Len(matchLog) = 1
              /\ get_handlers_for_event(event, matchLog[1].out) = {}
         [] pipeline = "mini" ->
              /\ ~IsCommentEvent(event)
              /\ {h \in Handlers : event.kind \in SUPPORTED_EVENTS_FOR_HANDLER(h)} = {}
         [] pipeline = "avant" ->
              /\ ~(/\ event.kind = "forgejo.pr.Comment"
                   /\ get_handlers_for_comment(event.comment, "/packit-ci") = {})
              /\ avant_get_handlers_for_event(event) = {}

\* C8 as claimed: with no matching handler the result is the empty list and
\* nothing is submitted, in all three dispatchers.
C8_NoHandlerEmptyList ==
    NoHandlerMatches => (returned = Returns(<<>>) /\ applyCalls = 0)

\* C8 as amended: SteveJobs.process_jobs and avant Jobs.process_jobs return
\* the empty list, MiniJobs._process_non_comment_event returns exactly one
\* TaskResults with success=true; none of them submits anything.
C8_NoHandlerNoSubmission ==
    NoHandlerMatches =>
        /\ applyCalls = 0
        /\ submissions = <<>>
        /\ built = <<>>
        /\ returned.kind = "list"
        /\ IF pipeline = "mini"
           THEN Len(returned.list) = 1 /\ returned.list[1].success
           ELSE returned.list = <<>>

C8_Witness ==
    /\ NoHandlerMatches
    /\ pipeline = "steve"
    /\ jobs # <<>>
    /\ matchLog[1].out # <<>>

-----------------------------------------------------------------------------
(* C9 *)

\* commands of the comment-command table
KnownCommands == {c \in {"build", "copr-build", "rebuild-failed", "test", "retest-failed",
                         "create-update", "koji-build", "koji-tag", "pull-from-upstream"} :
                     MAP_COMMENT_TO_HANDLER(c) # {}}

\* the text has a line "<prefix> <command>" with a command of the table
HasKnownCommandLine(comment, prefix) ==
    \E i \in 1..Len(comment) :
        /\ Len(comment[i]) >= 2
        /\ comment[i][1] = prefix
        /\ comment[i][2] \in KnownCommands

\* C9: a comment event without a recognized command yields exactly one
\* TaskResults with success=true and no signature is built or submitted, in
\* SteveJobs.process_jobs and in MiniJobs._process_comment_event.
C9_UnknownCommandOneInformationalResult ==
    (/\ pipeline \in {"steve", "mini"}
     /\ IsCommentEvent(event)
     /\ ~HasKnownCommandLine(event.comment, comment_command_prefix)
     /\ pc = "done"
     /\ pipeline = "steve" => ranJobs)
        => /\ returned.kind = "list"
           /\ Len(returned.list) = 1
           /\ returned.list[1].success
           /\ built = <<>>
           /\ submissions = <<>>
           /\ applyCalls = 0

\* a comment whose only command line carries another prefix was processed
C9_Witness ==
    /\ pipeline = "steve"
    /\ ranJobs
    /\ pc = "done"
    /\ event.kind = "github.pr.Comment"
    /\ event.comment = << <<"/packit-stg", "build">> >>
    /\ jobs # <<>>
    /\ Len(returned.list) = 1

-----------------------------------------------------------------------------
(* C10 *)

-----------------------------------------------------------------------------
(* C6 *)

IsEndRun(r) == r.n.topic = "end"

\* C6: CoprBuildEndHandler.run on a build whose persisted status is already
\* success or failure returns success and reports nothing, comments nothing,
\* writes nothing and dispatches no testing-farm task; and of two deliveries
\* in a row of the same build-end notification the second one adds no report
\* and no downstream trigger.
C6_EndOnTerminalBuildIsNoOp ==
    /\ \A i \in 1..Len(runs) :
          (IsEndRun(runs[i]) /\ runs[i].before \in {"success", "failure"})
              => /\ runs[i].success
                 /\ runs[i].reports = <<>>
                 /\ runs[i].tfTasks = <<>>
                 /\ ~runs[i].wrote
    /\ \A i \in 1..(Len(runs) - 1) :
          (/\ IsEndRun(runs[i])
           /\ runs[i + 1].n = runs[i].n
           /\ runs[i].before # "absent")
              => /\ runs[i + 1].reports = <<>>
                 /\ runs[i + 1].tfTasks = <<>>
                 /\ ~runs[i + 1].wrote

\* a successful end of a target was delivered twice in a row, the first
\* delivery reported and dispatched the tests
C6_Witness ==
    \E i \in 1..(Len(runs) - 1) :
        /\ IsEndRun(runs[i])
        /\ runs[i].n.chroot \in CoprTargets
        /\ runs[i].n.status = COPR_API_SUCC_STATE
        /\ runs[i].tfTasks # <<>>
        /\ runs[i].reports # <<>>
        /\ runs[i + 1].n = runs[i].n
        /\ runs[i + 1].success
        /\ Len(tfTasks) = 1

-----------------------------------------------------------------------------
(* C7 *)

\* C7: once the persisted status of a Copr build target is success or
\* failure, no run of CoprBuildStartHandler or CoprBuildEndHandler
\* (handle_srpm_end included), in any delivery order, changes it.
C7_TerminalStatusIsNeverChanged ==
    [][\A c \in CoprTargets \cap DOMAIN builds :
          builds[c].status \in {"success", "failure"}
              => builds'[c].status = builds[c].status]_vars

-----------------------------------------------------------------------------
(* The matcher's result, split into its two parts *)

Matched == pipeline = "matcher" /\ pc = "matched"

MatchOut == matchLog[1].out

\* the jobs appended by check_explicit_matching are the tail of the result
ExplicitPart == check_explicit_matching(event, jobs)

BasePart == SubSeq(MatchOut, 1, Len(MatchOut) - Len(ExplicitPart))

-----------------------------------------------------------------------------
(* C11 *)

HasLabelPredicates(job) == job.present # {} \/ job.absent # {}

LabelLaw(job, labels) ==
    /\ (job.present = {} \/ job.present \cap labels # {})
    /\ (job.absent = {} \/ job.absent \cap labels = {})

\* the conditions of the base filter that do not read the labels
PassesBaseFilter(job) ==
    /\ job.trigger = event.trigger
    /\ (IsRerun(event) => job.identifier = event.job_identifier)
    /\ (job.manual_trigger => IsCommentEvent(event) \/ IsResult(event) \/ IsRerun(event))

\* C11: for an event carrying a pull-request object, a pull_request-triggered
\* job with label predicates that passes the rest of the base filter is kept
\* iff (present is empty or one of its labels is on the PR) and (absent is
\* empty or none of its labels is on the PR), whatever the other jobs of the
\* list require.
C11_LabelLaw ==
    (Matched /\ event.has_pr) =>
        \A i \in 1..Len(jobs) :
            (/\ jobs[i].trigger = "pull_request"
             /\ HasLabelPredicates(jobs[i])
             /\ PassesBaseFilter(jobs[i]))
                => (jobs[i] \in Range(MatchOut) <=> LabelLaw(jobs[i], prLabels))

\* the PR carries wip and ready: the job with absent = {wip} is left out, the
\* job with present = {ready} next to it is kept
C11_Witness ==
    /\ Matched
    /\ event.kind = "github.pr.Action"
    /\ prLabels = {"wip", "ready"}
    /\ Len(jobs) = 2
    /\ jobs[1].absent = {"wip"}
    /\ jobs[2].present = {"ready"}
    /\ MatchOut = <<jobs[2]>>

-----------------------------------------------------------------------------
(* C12 *)

TriggerAndIdentifierMatch(job) ==
    /\ job.trigger = event.trigger
    /\ (IsRerun(event) => job.identifier = event.job_identifier)

\* C12: every job of the base part of the result has the event's trigger and,
\* for a check rerun, the event's identifier; a job failing either condition
\* is in the result only as a job returned by check_explicit_matching.
C12_BaseMatchesTriggerAndIdentifier ==
    Matched =>
        /\ \A i \in 1..Len(BasePart) : TriggerAndIdentifierMatch(BasePart[i])
        /\ \A i \in 1..Len(MatchOut) :
              ~TriggerAndIdentifierMatch(MatchOut[i]) => MatchOut[i] \in Range(ExplicitPart)

\* a check rerun for identifier id1: of two pull_request jobs only the one
\* with that identifier is returned
C12_Witness ==
    /\ Matched
    /\ IsRerun(event)
    /\ event.job_identifier = "id1"
    /\ Len(jobs) = 2
    /\ jobs[1].trigger = "pull_request" /\ jobs[1].identifier = None
    /\ jobs[2].trigger = "pull_request" /\ jobs[2].identifier = "id1"
    /\ ~jobs[1].manual_trigger /\ ~HasLabelPredicates(jobs[1])
    /\ MatchOut = <<jobs[2]>>

-----------------------------------------------------------------------------
(* C13 *)

\* C13: a job with manual_trigger set is in the base part of the result only
\* for a comment event, a result event or a check rerun.
C13_ManualOnlyForManualEvents ==
    Matched =>
        \A i \in 1..Len(BasePart) :
            BasePart[i].manual_trigger
                => (IsCommentEvent(event) \/ IsResult(event) \/ IsRerun(event))

\* a pull-request action: the manual job is left out, the other one is kept
C13_Witness ==
    /\ Matched
    /\ event.kind = "github.pr.Action"
    /\ Len(jobs) = 2
    /\ jobs[1].manual_trigger /\ jobs[1].trigger = "pull_request"
    /\ ~jobs[2].manual_trigger
    /\ MatchOut = <<jobs[2]>>

-----------------------------------------------------------------------------
(* C14 *)

-----------------------------------------------------------------------------
(* C15 *)

\* C15: a job added by check_explicit_matching is never equal-excluding-trigger
\* to a job that is already in the result, from the base filter or from
\* earlier in the explicit pass.
C15_ExplicitNeverRepeatsAJob ==
    Matched =>
        \A k \in (Len(BasePart) + 1)..Len(MatchOut) :
            \A i \in 1..(k - 1) : ~compare_jobs_without_triggers(MatchOut[i], MatchOut[k])

-----------------------------------------------------------------------------
(* C16 *)

\* C16: for an issue comment and for a build-tag event check_explicit_matching
\* returns every downstream job identity once: no two of its jobs are equal
\* apart from the trigger, and packages sharing the downstream package name
\* give one match.
C16_ExplicitMatchesOnce ==
    (Matched /\ (IsIssueComment(event) \/ event.kind = "koji.tag.Build")) =>
        /\ \A i, k \in 1..Len(ExplicitPart) :
              compare_jobs_without_triggers(ExplicitPart[i], ExplicitPart[k]) => i = k
        /\ event.kind = "koji.tag.Build" => Len(ExplicitPart) <= 1

-----------------------------------------------------------------------------
(* C17 *)

\* a is b with some elements left out, the order kept
RECURSIVE IsSubseq(_, _)
IsSubseq(a, b) ==
    IF a = <<>> THEN TRUE
    ELSE IF b = <<>> THEN FALSE
    ELSE IF Head(a) = Head(b) THEN IsSubseq(Tail(a), Tail(b))
    ELSE IsSubseq(a, Tail(b))

ExplicitTail == SubSeq(MatchOut, Len(BasePart) + 1, Len(MatchOut))

\* C17: the result is the base-filtered jobs in configuration order followed
\* by the explicit re-trigger jobs in configuration order; no job with
\* another trigger than the event's precedes a job with the event's trigger,
\* and get_config_for_handler_kls keeps the order of the result.
C17_BaseThenExplicitInConfigOrder ==
    Matched =>
        /\ \A i, k \in 1..Len(MatchOut) :
              (i < k /\ MatchOut[k].trigger = event.trigger)
                  => MatchOut[i].trigger = event.trigger
        /\ IsSubseq(BasePart, jobs)
        /\ event.kind # "koji.tag.Build" => IsSubseq(ExplicitTail, jobs)
        /\ \A h \in Handlers : IsSubseq(get_config_for_handler_kls(h, MatchOut), MatchOut)

\* the configuration lists the re-triggered job first; the result lists it last
C17_Witness ==
    /\ Matched
    /\ event.kind = "pagure.pr.Comment"
    /\ Len(jobs) = 2
    /\ jobs[1].type = "koji_build" /\ jobs[1].trigger = "commit"
    /\ jobs[2].trigger = "pull_request"
    /\ MatchOut = <<jobs[2], jobs[1]>>

-----------------------------------------------------------------------------
(* C18 *)

\* C18 as claimed: an empty job list gives an empty result for every event.
C18_EmptyJobsEmptyResult ==
    (Matched /\ jobs = <<>>) => MatchOut = <<>>

TaggedPackages == {i \in 1..Len(Packages) : Packages[i].downstream = event.package_name}

\* C18 as amended: an empty job list gives an empty result, except for a
\* build-tag event whose package name is the downstream name of a configured
\* package: then the result is the one virtual koji_build_tag job.
C18_EmptyJobsEmptyUnlessTagged ==
    (Matched /\ jobs = <<>>) =>
        IF event.kind = "koji.tag.Build" /\ TaggedPackages # {}
        THEN /\ Len(MatchOut) = 1
             /\ MatchOut[1].type = "koji_build_tag"
        ELSE MatchOut = <<>>

\* the matcher ran on an empty job list for a build-tag event of a package
\* that two configured packages share, and returned the one virtual job
C18_Witness ==
    /\ Matched
    /\ jobs = <<>>
    /\ event.kind = "koji.tag.Build"
    /\ Cardinality(TaggedPackages) = 2
    /\ Len(MatchOut) = 1

-----------------------------------------------------------------------------
(* C19 *)

\* C19: pre_check evaluates the checkers in the order get_checkers declares
\* them and evaluates none after one returned false; its result is true iff
\* every declared checker was evaluated and returned true.
C19_PreCheckShortCircuits ==
    pipeline = "checker" =>
        /\ Len(evaluated) <= Len(get_checkers(checkedHandler))
        /\ \A i \in 1..Len(evaluated) :
              /\ evaluated[i] = get_checkers(checkedHandler)[i]
              /\ i < Len(evaluated) => checkerVerdicts[evaluated[i]]
        /\ checkResult # <<>> =>
              (checkResult[1] <=>
                  /\ evaluated = get_checkers(checkedHandler)
                  /\ \A i \in 1..Len(evaluated) : checkerVerdicts[evaluated[i]])

\* the first of three checkers returned false, the second would have returned
\* true: only the first was evaluated and the result is false
C19_Witness ==
    /\ pipeline = "checker"
    /\ checkResult = <<FALSE>>
    /\ Len(get_checkers(checkedHandler)) = 3
    /\ ~checkerVerdicts[get_checkers(checkedHandler)[1]]
    /\ checkerVerdicts[get_checkers(checkedHandler)[2]]
    /\ Len(instantiated) = 3
    /\ Len(evaluated) = 1

-----------------------------------------------------------------------------
(* C20 *)

SubmissionRejected == applyCalls > Len(submissions)

\* report_task_accepted raised
ReportRaised == \E f \in reportFailed : f.outcome = "raises"

-----------------------------------------------------------------------------
(* C21 *)

\* C21: a failed "accepted" report for a (handler, job) pair, whether the
\* forge rejected the status or report_task_accepted raised, is only logged:
\* the signature of the pair is built all the same, the exception reaches
\* nobody, and when process_jobs has returned the signature was submitted.
C21_ReportFailureIsOnlyLogged ==
    pipeline = "steve" =>
        /\ \A f \in reportFailed : Signature(f.handler, f.job) \in Range(built)
        /\ returned.kind = "raised" => (parsed = "raises" \/ SubmissionRejected)
        /\ returned.kind = "list" =>
              \A f \in reportFailed :
                  Signature(f.handler, f.job) \in Range(Flatten(submissions))

-----------------------------------------------------------------------------
(* C22 *)

SubmitPackageSignature == Signature("SubmitPackageHandler", NoJob)

\* C22: a signature of SubmitPackageHandler is built or submitted only for a
\* Forgejo PR comment whose actor is among the project's contributors, and
\* only after the handler's pre_check returned true.
C22_SyncPackageOnlyForMaintainers ==
    (SubmitPackageSignature \in Range(built) \cup Range(Flatten(submissions)) \cup lostSubs) =>
        /\ event.kind = "forgejo.pr.Comment"
        /\ actor \in contributors
        /\ PreCheck("SubmitPackageHandler", NoJob, TRUE) \in Range(prechecked)

\* a contributor's sync-package comment was dispatched
C22_Witness ==
    /\ event.kind = "forgejo.pr.Comment"
    /\ actor \in contributors
    /\ <<SubmitPackageSignature>> \in Range(submissions)

-----------------------------------------------------------------------------
(* C23 *)

C23_TerminalTaskIsNeverEnqueued ==
    [][\A i \in DOMAIN tasks :
          tasks[i].state # "queued" => tasks'[i] = tasks[i]]_vars

-----------------------------------------------------------------------------
(* C24 *)

\* C24: get_handlers_for_comment and get_handlers_for_check_rerun never raise,
\* and return the empty set for a command or a check-name prefix that no
\* handler registered and for a comment without a command line.
C24_UnknownKeyGivesEmptySet ==
    \A i \in DOMAIN lookups :
        LET l == lookups[i] IN
        /\ l.fn = "get_handlers_for_comment" =>
              /\ ~l.raised
              /\ l.key \notin RegisteredCommands => l.result = {}
        /\ l.fn = "get_handlers_for_check_rerun" =>
              /\ ~l.raised
              /\ l.key \notin RegisteredPrefixes => l.result = {}

\* an unknown command, an unknown prefix or a comment without a command line
\* was looked up
C24_Witness ==
    /\ Len(lookups) = 2
    /\ lookups[1] \in {Lookup("get_handlers_for_comment", "frobnicate", {}, FALSE),
                       Lookup("get_handlers_for_comment", None, {}, FALSE)}
    /\ lookups[2] = Lookup("get_handlers_for_check_rerun", "nonsense", {}, FALSE)

-----------------------------------------------------------------------------
(* C25 *)

\* C25: no sequence of get_handlers_for_comment, get_handlers_for_check_rerun,
\* get_handlers_for_event and parse_check_name calls changes a registry table:
\* the key sets and the values stay those of the registration, and
\* parse_check_name goes on with no prefix that nobody registered.
C25_TablesNeverModified ==
    /\ tables = RegisteredTables
    /\ \A i \in DOMAIN lookups :
          (lookups[i].fn = "parse_check_name"
           /\ lookups[i].key \notin RegisteredPrefixes) => lookups[i].result = {}

-----------------------------------------------------------------------------
(* C26 *)

\* C26: once reacts_to(E) has registered the handler class H, the event-type
\* table of avant maps H to a set containing E, and get_handlers_for_event
\* on an event of type E returns a set that contains H and holds only
\* registered handler classes.
C26_RegisteredHandlerIsReturned ==
    pipeline = "avant" =>
        \A i \in DOMAIN AvantRegistrations :
            LET r == AvantRegistrations[i] IN
            /\ r.kls \in DOMAIN AVANT_SUPPORTED_EVENTS_FOR_HANDLER
            /\ r.event \in Subscript(AVANT_SUPPORTED_EVENTS_FOR_HANDLER, r.kls)
            /\ event.kind = r.event =>
                  /\ r.kls \in avant_get_handlers_for_event(event)
                  /\ avant_get_handlers_for_event(event)
                        \subseteq {AvantRegistrations[j].kls : j \in DOMAIN AvantRegistrations}

-----------------------------------------------------------------------------
(* C27 *)

\* the line is "<prefix> <command> ...": its first token is the prefix and at
\* least one token follows
IsCommandLine(line, prefix) == Len(line) >= 2 /\ line[1] = prefix

\* C27: get_packit_commands_from_comment returns the command and the arguments
\* of the first line whose first token is exactly the prefix and is followed
\* by a token; blank lines, lines with another first token and the bare
\* prefix are skipped; without such a line the result is the empty list.
C27_FirstCommandLineOfThePrefix ==
    \A i \in DOMAIN lookups :
        lookups[i].fn = "get_packit_commands_from_comment" =>
            LET text == event.comment
                prefix == lookups[i].key
                hits == {j \in 1..Len(text) : IsCommandLine(text[j], prefix)}
            IN IF hits = {}
               THEN lookups[i].result = <<>>
               ELSE LET first == CHOOSE j \in hits : \A k \in hits : j <= k
                    IN lookups[i].result = SubSeq(text[first], 2, Len(text[first]))

\* the command and its argument were taken from the line after a bare prefix
C27_Witness ==
    /\ pipeline = "utils"
    /\ event.comment = << <<"/packit">>, <<"/packit", "build", "--arg">> >>
    /\ lookups = <<Lookup("get_packit_commands_from_comment", "/packit",
                          <<"build", "--arg">>, FALSE)>>

-----------------------------------------------------------------------------
(* C28 *)

\* C28: Jobs.process_message of avant goes on to process_jobs exactly when the
\* parsed event is of an accepted type and carries a stored project-event
\* object; otherwise it returns the one default successful result; the type
\* test never raises.
C28_AcceptedTypeAndStoredObject ==
    (pipeline = "avant" /\ parsed \in AvantParserOutcomes) =>
        /\ returned # Raised
        /\ IF /\ parsed = "event"
              /\ event.kind \in AvantAcceptedTypes
              /\ db_project_object # None
           THEN pc # "message" /\ returned.kind # "list"
           ELSE returned = Returns(<<TaskResults(TRUE, "Job Created.")>>)

-----------------------------------------------------------------------------
(* C29 *)

\* the counters of one message, by what the parser and the event's pre_check did
MessageCounters ==
    /\ metrics.events_not_handled = (IF parsed = "none" THEN 1 ELSE 0)
    /\ metrics.events_pre_check_failed =
          (IF parsed = "event" /\ event_pre_check = "false" THEN 1 ELSE 0)
    /\ metrics.events_not_handled + metrics.events_pre_check_failed <= 1
    /\ (parsed = "none" \/ (parsed = "event" /\ event_pre_check = "false")) =>
          /\ returned = Returns(<<>>)
          /\ pc = "done"
          /\ ~ranJobs /\ ~ciDispatched
          /\ matchLog = <<>> /\ prechecked = <<>> /\ built = <<>>
          /\ applyCalls = 0

\* C29 as stated: SteveJobs.process_message counts every message in
\* events_processed, counts it in events_not_handled exactly when the parser
\* yields no event and in events_pre_check_failed exactly when the event's
\* pre_check is false, never in both, and returns an empty list in these two
\* cases without matching, checking or dispatching.
C29_EveryMessageIsCounted ==
    (pipeline = "steve" /\ parsed # "pending") =>
        /\ metrics.events_processed = 1
        /\ MessageCounters

\* C29, amended: as stated, for every message the parser returns from; a
\* message whose parsing raises is not counted at all.
C29_EveryParsedMessageIsCounted ==
    (pipeline = "steve" /\ parsed # "pending") =>
        /\ metrics.events_processed = (IF parsed = "raises" THEN 0 ELSE 1)
        /\ MessageCounters

\* an event was parsed and discarded by its pre_check
C29_Witness ==
    /\ pipeline = "steve"
    /\ parsed = "event"
    /\ event_pre_check = "false"
    /\ metrics = [events_processed |-> 1, events_not_handled |-> 0,
                  events_pre_check_failed |-> 1]
    /\ returned = Returns(<<>>)

-----------------------------------------------------------------------------
(* C30 *)

\* create_tasks has gone through the job configs of its handler and pre_check
\* rejected every one of them
AllJobConfigsRejected ==
    /\ pipeline = "steve"
    /\ pc = "create_tasks"
    /\ jobQueue = <<>>
    /\ \E i \in DOMAIN prechecked : prechecked[i].handler = curHandler
    /\ \A i \in DOMAIN prechecked :
          prechecked[i].handler = curHandler => ~prechecked[i].verdict

\* C30 as stated: when pre_check rejects every job config of a handler,
\* create_tasks makes no submission call, not even of an empty group, and
\* has no TaskResults for the handler.
C30_NoSubmissionCallWhenAllRejected ==
    [][(AllJobConfigsRejected /\ pc' # "create_tasks") =>
          /\ applyCalls' = applyCalls
          /\ taskResults = <<>>]_vars

\* C30, amended: when pre_check rejects every job config of a handler,
\* create_tasks still makes its one submission call, of an empty group: no
\* signature is built or handed to the backend and no TaskResults is added
\* for the handler.
C30_EmptyGroupWhenAllRejected ==
    [][(AllJobConfigsRejected /\ pc' # "create_tasks") =>
          /\ applyCalls' = applyCalls + 1
          /\ signatures = <<>> /\ taskResults = <<>>
          /\ built' = built
          /\ lostSubs' = lostSubs
          /\ procResults' = procResults
          /\ pc' = "handlers" => submissions' = Append(submissions, <<>>)]_vars

\* the empty group of a handler whose job configs were all rejected was
\* submitted
C30_Witness ==
    /\ pipeline = "steve"
    /\ pc = "handlers"
    /\ \E i \in DOMAIN prechecked : prechecked[i].handler = curHandler
    /\ \A i \in DOMAIN prechecked :
          prechecked[i].handler = curHandler => ~prechecked[i].verdict
    /\ submissions # <<>>
    /\ submissions[Len(submissions)] = <<>>
    /\ applyCalls = Len(submissions)
    /\ taskResults = <<>>

-----------------------------------------------------------------------------
(* C31 *)

\* the element is a TaskResults record, not a signature
IsTaskResults(x) == DOMAIN x = {"success", "msg"}

\* the results that say a task was created
TaskCreatedMessages == {"Job created.", "Task created for handler"}

CreatedResults(list) ==
    Cardinality({i \in 1..Len(list) :
                    IsTaskResults(list[i]) /\ list[i].msg \in TaskCreatedMessages})

\* C31: every element of the list a dispatch path returns is a TaskResults
\* record, and the task-created results in it are as many as the signatures
\* submitted to the execution backend.
C31_OneResultPerSubmittedSignature ==
    returned.kind = "list" =>
        /\ \A i \in 1..Len(returned.list) : IsTaskResults(returned.list[i])
        /\ CreatedResults(returned.list) = Len(Flatten(submissions))

-----------------------------------------------------------------------------
(* C32 *)

\* C32: in MiniJobs and in avant Jobs a signature is built for a handler only
\* after pre_check of that handler returned true for the event.
C32_AlternativePipelinesCheckFirst ==
    pipeline \in {"mini", "avant"} =>
        \A i \in 1..Len(built) :
            \E k \in 1..Len(prechecked) :
                /\ prechecked[k].handler = built[i].handler
                /\ prechecked[k].verdict

-----------------------------------------------------------------------------
(* C33 *)

\* C33: run() of CoprBuildHandler and AvantPRBuildHandler cancels running
\* builds only when CANCEL_RUNNING_JOBS is set, and then before it submits
\* the new build; without the opt-in no earlier build is cancelled.
C33_CancellationIsOptIn ==
    pipeline = "build" =>
        /\ (\E i \in DOMAIN buildOps : buildOps[i] = "cancel_running_builds")
              => /\ cancel_running_jobs # None
                 /\ buildOps[1] = "cancel_running_builds"
        /\ \A i, j \in DOMAIN buildOps :
              (/\ buildOps[i] = "cancel_running_builds"
               /\ buildOps[j] = "run_copr_build_from_source_script") => i < j
        /\ cancel_running_jobs = None =>
              \A b \in coprBuilds : b.state # "canceled"

\* a running build was cancelled and the new build was submitted after it
C33_Witness ==
    /\ pipeline = "build"
    /\ pc = "done"
    /\ cancel_running_jobs = "1"
    /\ \E b \in coprBuilds : b.state = "canceled"
    /\ \E b \in coprBuilds : b.id = MaxBuilds + 1 /\ b.state = "running"
    /\ buildOps = <<"cancel_running_builds", "run_copr_build_from_source_script">>

-----------------------------------------------------------------------------
(* C34 *)

\* the matching jobs whose type the handler handles directly, in order
DirectJobs(h) ==
    SelectSeq(MatchOut, LAMBDA j : h \in MAP_JOB_TYPE_TO_HANDLER(j.type))

\* the matching jobs whose type requires the handler, in order
RequiredJobs(h) ==
    SelectSeq(MatchOut, LAMBDA j : h \in MAP_REQUIRED_JOB_TYPE_TO_HANDLER(j.type))

\* C34: get_config_for_handler_kls returns the matching jobs whose type the
\* handler handles directly, in configuration order; only when there is none
\* it returns the matching jobs whose type requires the handler; the result
\* never holds jobs of both groups.
C34_DirectJobsElseRequiredJobs ==
    Matched =>
        \A h \in Handlers :
            LET result == get_config_for_handler_kls(h, MatchOut) IN
            /\ DirectJobs(h) # <<>> => result = DirectJobs(h)
            /\ DirectJobs(h) = <<>> => result = RequiredJobs(h)
            /\ \/ \A i \in 1..Len(result) :
                      h \in MAP_JOB_TYPE_TO_HANDLER(result[i].type)
               \/ \A i \in 1..Len(result) :
                      h \notin MAP_JOB_TYPE_TO_HANDLER(result[i].type)

\* a build job and a tests job match: the build handler gets the build job
\* alone, and the tests job alone once no build job matches
C34_Witness ==
    /\ Matched
    /\ Len(MatchOut) = 2
    /\ DirectJobs("CoprBuildHandler") # <<>>
    /\ RequiredJobs("CoprBuildHandler") # <<>>
    /\ Len(get_config_for_handler_kls("CoprBuildHandler", MatchOut)) = 1
    /\ get_config_for_handler_kls("CoprBuildHandler", Tail(MatchOut)) = RequiredJobs("CoprBuildHandler")

-----------------------------------------------------------------------------
(* C35 *)

\* the run the step has just appended to the log
NewRun == runs'[Len(runs')]

\* C35: a start notification for a build that has a start time is a no-op
\* success (no write to the build, no report) and BuildNotAlreadyStarted
\* rejects the start handler for it; of two deliveries in a row of the same
\* start notification only one reports the running status.
C35_StartIsIdempotentUnderRedelivery ==
    [][(pipeline = "copr" /\ delivered' = delivered + 1 /\ NewRun.n.topic = "start") =>
         /\ (NewRun.n.chroot \in DOMAIN builds /\ builds[NewRun.n.chroot].build_start_time)
               => /\ NewRun.success
                  /\ builds' = builds
                  /\ reports' = reports
                  /\ ~BuildNotAlreadyStarted(builds, NewRun.n.chroot)
         /\ (/\ runs # <<>>
             /\ runs[Len(runs)].n = NewRun.n
             /\ runs[Len(runs)].reports # <<>>) => NewRun.reports = <<>>]_vars

-----------------------------------------------------------------------------
(* C36 *)

\* the test jobs of the config the claim lets the notification trigger
TriggeredTestJobs(n) ==
    {i \in 1..Len(coprJob.tests) :
        /\ coprJob.tests[i].trigger = "pull_request" => ~coprJob.tests[i].labels
        /\ n.chroot \in coprJob.tests[i].build_targets}

\* the worker went through the branch of a successfully built RPM chroot
HandledSuccessfulEnd(w) ==
    /\ workers[w].pc = "done"
    /\ workers[w].n.chroot \in CoprTargets
    /\ workers[w].n.status = COPR_API_SUCC_STATE
    /\ workers[w].reports # <<>>

\* C36: a run of CoprBuildEndHandler dispatches testing-farm tasks only for
\* the successful end of an RPM chroot and only once the persisted status of
\* the build is success; it then dispatches exactly one task for every test
\* job that has no label predicate (if triggered by pull_request) and whose
\* build targets include the chroot, and none for any other test job; the
\* end of a failed build or of the SRPM chroot dispatches none.
C36_TestsOnlyAfterSuccessfulRpmEnd ==
    pipeline = "workers" =>
        \A w \in Workers :
            LET n == workers[w].n
                tf == workers[w].tfTasks
            IN /\ tf # <<>> => /\ n.chroot \in CoprTargets
                               /\ n.status = COPR_API_SUCC_STATE
                               /\ builds[n.chroot].status = "success"
               /\ HandledSuccessfulEnd(w) =>
                     \A i \in 1..Len(coprJob.tests) :
                         Cardinality({k \in 1..Len(tf) : tf[k].test_job = i})
                             = IF i \in TriggeredTestJobs(n) THEN 1 ELSE 0
               /\ (n.status # COPR_API_SUCC_STATE \/ n.chroot = COPR_SRPM_CHROOT)
                     => tf = <<>>

\* a successful end with a labelled pull-request test job and a test job for
\* the chroot: one task, for the second
C36_Witness ==
    /\ pipeline = "workers"
    /\ HandledSuccessfulEnd("worker1")
    /\ Len(coprJob.tests) = 2
    /\ coprJob.tests[1].labels /\ coprJob.tests[1].trigger = "pull_request"
    /\ workers["worker1"].n.chroot \in coprJob.tests[1].build_targets
    /\ Len(workers["worker1"].tfTasks) = 1
    /\ workers["worker1"].tfTasks[1].test_job = 2

-----------------------------------------------------------------------------
(* C38 *)

SuccessReports ==
    {k \in 1..Len(reports) : reports[k].kind = "status" /\ reports[k].state = "success"}

\* C38: with two workers running CoprBuildEndHandler.run for the same
\* build-end notification, in every interleaving of their steps the success
\* status is reported at most once and at most one testing-farm task is
\* dispatched for each test job.
C38_ConcurrentEndReportsAndDispatchesOnce ==
    pipeline = "workers" =>
        /\ Cardinality(SuccessReports) <= 1
        /\ \A i \in 1..Len(coprJob.tests) :
              Cardinality({k \in 1..Len(tfTasks) : tfTasks[k].test_job = i}) <= 1

-----------------------------------------------------------------------------
(* C37 *)

\* C37: for a Forgejo pull-request action or comment event
\* is_packit_config_present does not raise, returns true and has installed a
\* configuration of two pull_request jobs, copr_build and tests, for the
\* package the body names, whatever the body holds.
C37_ForgejoConfigAlwaysPresent ==
    (pipeline = "forgejo" /\ pc = "done") =>
        /\ ~lookups[1].raised
        /\ lookups[1].result = TRUE
        /\ TypesOf(jobs) = <<"copr_build", "tests">>
        /\ \A i \in 1..Len(jobs) : jobs[i].trigger = "pull_request"
        /\ \A i \in 1..Len(jobs), k \in 1..Len(event.body.lines) :
              (/\ event.body.lines[k].marker = "Package Name:"
               /\ event.body.lines[k].rest # ""
               /\ \A l \in (k + 1)..Len(event.body.lines) :
                     event.body.lines[l].marker = None)
                  => jobs[i].package = event.body.lines[k].rest

-----------------------------------------------------------------------------
(* C39 *)

\* C39: while one event is processed, every handler class the loop of
\* process_jobs takes from the result of get_handlers_for_event gets a
\* non-empty list from get_config_for_handler_kls, so create_tasks never
\* starts with an empty job list, although the matcher runs again for each
\* call and reads the labels of the pull request again.
C39_SelectedHandlerGetsJobs ==
    [][(pipeline = "steve" /\ pc = "handlers" /\ pc' = "create_tasks")
          => jobQueue' # <<>>]_vars

-----------------------------------------------------------------------------
(* C40 *)

====
